---- MODULE Spec2Model ----
(***************************************************************************)
(* Model of memwrapper's inline hook engine (memhook) on 32-bit x86:       *)
(* boundary computation, trampoline synthesis with relocation, the         *)
(* install / remove state machine and the executable arena it writes to.   *)
(* Addresses and immediates are 32-bit unsigned values, held as a pair     *)
(* << high 16 bits, low 16 bits >> with arithmetic mod 2^32; memory is     *)
(* modelled byte by byte.                                                  *)
(***************************************************************************)
EXTENDS Integers, Naturals, Sequences, FiniteSets, TLC

\* ------------------------------------------------------------------------
\* Bounds of the model
\* ------------------------------------------------------------------------

\* number of instructions a generated hookee prologue is built from
MaxInstrs == 2

\* bytes of hookee memory kept after the longest overwrite window
TailLen == 2

\* cap on the number of VirtualAlloc calls in one behaviour
MaxAllocs == 2

\* bytes of memory that patches are applied to
PMemLen == 6

\* cap on the number of units added to one scoped_patch
MaxUnits == 2

\* cap on the depth of nested scoped objects
MaxScopes == 2

\* bytes of the module image that is searched
ImageLen == 3

\* characters of the longest mask
MaxMaskLen == 2

\* cap on the number of calls made on one arena
MaxCalls == 3

\* set_offset is called with offsets up to this many bytes before capacity
ArenaSlack == 4

\* cap on the number of memory primitives called in one behaviour
MaxMemCalls == 2

\* ------------------------------------------------------------------------
\* Program constants
\* ------------------------------------------------------------------------

kCallOpcode == 232

kJumpOpcode == 233

kNopOpcode == 144

kJumpSize == 5

kPageSize4Kb == 4096

\* offset of the redirect slot inside the trampoline
kSlotOffset == 11

\* offset of the relocated prologue inside the trampoline
kBodyOffset == 16

\* 2^16: a 32-bit word is << high half, low half >>
Half == 65536

Byte == 0 .. 255

\* a smart pointer is << >> when empty and << object >> when it owns one
NULL == << >>


\* enum Registers { Eax, Ecx, Edx, Ebx, Esp, Ebp, Esi, Edi }
Eax == 0

Esp == 4

\* ------------------------------------------------------------------------
\* Addresses of the modelled process
\* ------------------------------------------------------------------------

\* values of m_hookee: 0x00401000
Hookees == { << 64, 4096 >> }

\* values of m_hooker: 0x00402345
Hookers == { << 64, 9029 >> }

\* &m_context.return_address: 0x0012FF40
ContextAddr == << 18, 65344 >>

\* entries of a third party's detour: 0x10001000
ChainTargets == { << 4096, 4096 >> }

\* addresses VirtualAlloc may return: 0x00030000 (below the hookee) and
\* 0x7FFE0000 (above it), so that rel32 values of both signs occur
ArenaBases == { << 3, 0 >>, << 32766, 0 >> }

\* longest overwrite window: 4 bytes short of a jump, then a 6-byte jcc
MaxWindow == (kJumpSize - 1) + 6

MemLen == MaxWindow + TailLen

\* ------------------------------------------------------------------------
\* 32-bit arithmetic and byte order
\* ------------------------------------------------------------------------

\* the 32-bit word of a small natural number
Word(n) == << n \div Half, n % Half >>

Add32(a, b) ==
    LET lo == a[2] + b[2]
        hi == a[1] + b[1] + (lo \div Half)
    IN  << hi % Half, lo % Half >>

Neg32(a) == Add32(<< Half - 1 - a[1], Half - 1 - a[2] >>, Word(1))

Sub32(a, b) == Add32(a, Neg32(b))

\* little-endian bytes of a 32-bit value (detail::byteof<T>)
LE32(v) == << v[2] % 256, v[2] \div 256, v[1] % 256, v[1] \div 256 >>

FromLE32(b) == << b[3] + 256 * b[4], b[1] + 256 * b[2] >>

get_relative_address(to, from, oplen) == Sub32(Sub32(to, from), Word(oplen))

restore_absolute_address(imm, from, oplen) == Add32(Add32(imm, from), Word(oplen))

\* ------------------------------------------------------------------------
\* Hookee memory: a function from offsets (relative to m_hookee) to bytes
\* ------------------------------------------------------------------------

\* bytes m[off .. off+n-1] as a sequence
ReadBytes(m, off, n) == [i \in 1 .. n |-> m[off + i - 1]]

\* m with the sequence bs stored at offset off (std::memcpy / typed store)
StoreBytes(m, off, bs) ==
    [i \in DOMAIN m |->
        IF i >= off /\ i < off + Len(bs) THEN bs[i - off + 1] ELSE m[i]]

\* m with n copies of value stored at offset off (std::memset)
FillBytes(m, off, value, n) ==
    [i \in DOMAIN m |-> IF i >= off /\ i < off + n THEN value ELSE m[i]]

\* ------------------------------------------------------------------------
\* Instruction decoder (hde32_disasm), on the instruction subset the
\* prologues are built from.  imm holds the raw immediate as the decoder
\* stores it: an unsigned byte for imm8, an unsigned dword for imm32.
\* ------------------------------------------------------------------------

OneByteOpcodes == {144, 80, 85, 195, 204}

hde32_disasm(m, off) ==
    LET op == m[off] IN
    IF op \in OneByteOpcodes THEN
        [len |-> 1, opcode |-> op, opcode2 |-> 0, imm |-> Word(0),
         F_ERROR |-> FALSE, F_RELATIVE |-> FALSE, F_IMM8 |-> FALSE, F_IMM32 |-> FALSE]
    ELSE IF op = 139 THEN
        \* 8B /r  mov r32, r/m32 (register form)
        [len |-> 2, opcode |-> op, opcode2 |-> 0, imm |-> Word(0),
         F_ERROR |-> FALSE, F_RELATIVE |-> FALSE, F_IMM8 |-> FALSE, F_IMM32 |-> FALSE]
    ELSE IF op = 131 THEN
        \* 83 /r ib  op r/m32, imm8 (register form)
        [len |-> 3, opcode |-> op, opcode2 |-> 0, imm |-> Word(m[off + 2]),
         F_ERROR |-> FALSE, F_RELATIVE |-> FALSE, F_IMM8 |-> TRUE, F_IMM32 |-> FALSE]
    ELSE IF op = 184 THEN
        \* B8 id  mov eax, imm32
        [len |-> 5, opcode |-> op, opcode2 |-> 0,
         imm |-> FromLE32(ReadBytes(m, off + 1, 4)),
         F_ERROR |-> FALSE, F_RELATIVE |-> FALSE, F_IMM8 |-> FALSE, F_IMM32 |-> TRUE]
    ELSE IF op = 232 \/ op = 233 THEN
        \* E8 cd  call rel32 / E9 cd  jmp rel32
        [len |-> 5, opcode |-> op, opcode2 |-> 0,
         imm |-> FromLE32(ReadBytes(m, off + 1, 4)),
         F_ERROR |-> FALSE, F_RELATIVE |-> TRUE, F_IMM8 |-> FALSE, F_IMM32 |-> TRUE]
    ELSE IF op = 235 \/ (op >= 112 /\ op <= 127) THEN
        \* EB cb  jmp rel8 / 7x cb  jcc rel8
        [len |-> 2, opcode |-> op, opcode2 |-> 0, imm |-> Word(m[off + 1]),
         F_ERROR |-> FALSE, F_RELATIVE |-> TRUE, F_IMM8 |-> TRUE, F_IMM32 |-> FALSE]
    ELSE IF op = 15 /\ m[off + 1] >= 128 /\ m[off + 1] <= 143 THEN
        \* 0F 8x cd  jcc rel32
        [len |-> 6, opcode |-> op, opcode2 |-> m[off + 1],
         imm |-> FromLE32(ReadBytes(m, off + 2, 4)),
         F_ERROR |-> FALSE, F_RELATIVE |-> TRUE, F_IMM8 |-> FALSE, F_IMM32 |-> TRUE]
    ELSE
        [len |-> 1, opcode |-> op, opcode2 |-> 0, imm |-> Word(0),
         F_ERROR |-> TRUE, F_RELATIVE |-> FALSE, F_IMM8 |-> FALSE, F_IMM32 |-> FALSE]

\* ------------------------------------------------------------------------
\* Executable arena (basic_allocator / asm_allocator).  An allocator value
\* is [m_code, m_size, m_offset, code]; code holds the bytes of the region
\* from its base up to the highest byte written (the rest is still zero).
\* ------------------------------------------------------------------------

align_value(value, alignment) ==
    LET remainder == value % alignment IN
    IF remainder = 0 THEN value ELSE value - remainder + alignment

\* region bytes with b stored at offset off
Poke(code, off, b) ==
    IF off < Len(code) THEN [code EXCEPT ![off + 1] = b]
    ELSE code \o [i \in 1 .. (off - Len(code)) |-> 0] \o << b >>

basic_allocator(base, size) ==
    [m_code |-> base, m_size |-> align_value(size, kPageSize4Kb),
     m_offset |-> 0, code |-> << >>]

db_past(a, opcode) ==
    IF a.m_offset > a.m_size THEN a
    ELSE [a EXCEPT !.code = Poke(a.code, a.m_offset, opcode),
                   !.m_offset = a.m_offset + 1]

db(a, opcode) ==
    IF a.m_offset + 1 > a.m_size THEN a
    ELSE [a EXCEPT !.code = Poke(a.code, a.m_offset, opcode),
                   !.m_offset = a.m_offset + 1]

RECURSIVE dbseq(_, _)
dbseq(a, bs) ==
    IF bs = << >> THEN a ELSE dbseq(db(a, Head(bs)), Tail(bs))

dbvalue(a, value) == dbseq(a, LE32(value))

now(a) == Add32(a.m_code, Word(a.m_offset))

begin(a) == a.m_code

get(a, offset) ==
    IF offset >= a.m_size THEN Add32(a.m_code, Word(a.m_size - 1))
    ELSE Add32(a.m_code, Word(offset))

set_offset(a, offset) ==
    IF offset >= a.m_size THEN a ELSE [a EXCEPT !.m_offset = offset]

jmp_rel_from_base(a, to) ==
    dbvalue(db(a, 233), get_relative_address(to, begin(a), 5))

jmp(a, to) ==
    LET rel32 == get_relative_address(to, now(a), 5) IN
    dbvalue(db(a, 233), rel32)

push(a, reg86) == db(a, 80 + reg86)

pop(a, reg86) == db(a, 88 + reg86)

\* mov(Registers in, Registers out, uint8_t offset)
mov_reg(a, in, out, offset) ==
    LET a1 == db(a, 139)
        a2 == IF offset = 0 THEN db(a1, 8 * in + out)
              ELSE db(a1, 8 * in + out + 64)
        a3 == IF out = Esp THEN db(a2, 36) ELSE a2
    IN  IF offset # 0 THEN db(a3, offset) ELSE a3

mov_abs_load(a, in, out) ==
    LET a1 == IF out = Eax THEN db(a, 161)
              ELSE db(db(a, 137), (13 + out * 8 - 8) % 256)
    IN  dbvalue(a1, in)

\* mov(const uint32_t* in, Registers out)
mov_abs(a, in, out) ==
    LET a1 == IF out = Eax THEN db(a, 163)
              ELSE db(db(a, 137), (13 + out * 8 - 8) % 256)
    IN  dbvalue(a1, in)

\* bytes code[off .. off+n-1] of a region, zero where nothing was written
Peek(code, off, n) ==
    [i \in 1 .. n |-> IF off + i <= Len(code) THEN code[off + i] ELSE 0]

\* ------------------------------------------------------------------------
\* memhook: constructor
\* ------------------------------------------------------------------------

\* the boundary loop of the constructor; yields m_size and kListingBroken
RECURSIVE ctor_scan_past(_, _, _)
ctor_scan_past(m, size, cursor) ==
    IF size <= kJumpSize THEN
        LET hs == hde32_disasm(m, cursor) IN
        IF hs.F_ERROR THEN [m_size |-> size, broken |-> TRUE]
        ELSE ctor_scan_past(m, size + hs.len, cursor + hs.len)
    ELSE [m_size |-> size, broken |-> FALSE]

RECURSIVE ctor_scan(_, _, _)
ctor_scan(m, size, cursor) ==
    IF size < kJumpSize THEN
        LET hs == hde32_disasm(m, cursor) IN
        IF hs.F_ERROR THEN [m_size |-> size, broken |-> TRUE]
        ELSE ctor_scan(m, size + hs.len, cursor + hs.len)
    ELSE [m_size |-> size, broken |-> FALSE]

\* m_flags after the constructor
ctor_flags(m, executable) ==
    (IF ctor_scan(m, 0, 0).broken THEN {"kListingBroken"} ELSE {})
        \cup (IF executable THEN {"kExecutable"} ELSE {})

\* ------------------------------------------------------------------------
\* memhook::generate_trampoline_instructions
\* ------------------------------------------------------------------------

\* the instruction emitted for the one decoded at hookee offset off, when
\* the arena cursor is at address at
relocate(m, hookee, off, hs, at) ==
    LET nowaddr == Add32(hookee, Word(off)) IN
    IF hs.opcode = 232 THEN
        LET destination == restore_absolute_address(hs.imm, nowaddr, 5) IN
        << 232 >> \o LE32(get_relative_address(destination, at, 5))
    ELSE IF hs.opcode = 233 \/ hs.opcode = 235 THEN
        \* (hs.opcode & 0xFD) == 0xE9
        LET destination == Add32(Add32(nowaddr, Word(hs.len)), hs.imm) IN
        << 233 >> \o LE32(get_relative_address(destination, at, 5))
    ELSE IF hs.opcode \div 16 = 7 \/ hs.opcode2 \div 16 = 8 THEN
        \* (hs.opcode & 0xF0) == 0x70 || (hs.opcode2 & 0xF0) == 0x80
        LET destination == Add32(Add32(nowaddr, Word(hs.len)), hs.imm)
            cond == (IF hs.opcode # 15 THEN hs.opcode ELSE hs.opcode2) % 16
        IN  << 15, 128 + cond >> \o LE32(get_relative_address(destination, at, 6))
    ELSE
        ReadBytes(m, off, hs.len)

\* the relocation loop: a is the arena, nowoff the read cursor (now -
\* m_hookee), step the number of bytes emitted so far
RECURSIVE trampoline_loop(_, _, _, _, _, _)
trampoline_loop(a, m, hookee, size, nowoff, step) ==
    IF step >= size THEN jmp(a, Add32(hookee, Word(nowoff)))
    ELSE
        LET hs == hde32_disasm(m, nowoff) IN
        IF hs.F_ERROR THEN a
        ELSE
            LET bs == relocate(m, hookee, nowoff, hs, now(a)) IN
            trampoline_loop(dbseq(a, bs), m, hookee, size,
                            nowoff + hs.len, step + Len(bs))

generate_trampoline_instructions(a, m, hookee, size) ==
    trampoline_loop(a, m, hookee, size, 0, 0)

\* ------------------------------------------------------------------------
\* State
\* ------------------------------------------------------------------------

VARIABLES
    mem,                 \* bytes at m_hookee + 0 .. MemLen-1
    m_hookee,
    m_hooker,
    m_size,
    m_original_code,     \* NULL or << the saved bytes >>
    m_trampoline_code,   \* NULL or << an allocator value >>
    m_flags,             \* subset of the MemhookFlags names
    m_call_abs,
    regions,             \* state of each region VirtualAlloc can return
    n_alloc,             \* number of VirtualAlloc calls so far
    bad_free,            \* a VirtualFree was issued on a region not live
    alive,               \* the memhook object has not been destroyed
    executable,          \* is_executable(m_hookee) at construction
    chained,             \* NULL or << the rel32 a third party replaced >>
    touched,             \* a third party has written to the hookee
    prev,                \* the operation before the last one
    last                 \* the last operation, with the state before it

\* state of the memory facilities next to the hook engine: patch units and
\* groups, scoped writes, and the signature search
VARIABLES
    pmem,                \* bytes of the memory that patches are applied to
    plast,               \* the last patch operation, with the bytes before it
    unit,                \* NULL or << a scoped_patch_unit >>
    m_units,             \* the units of a scoped_patch, in the order added
    patch_alive,         \* the scoped_patch has not been destroyed
    patch_used,          \* install() or toggle(true) was called on it
    scopes,              \* the live scoped objects, innermost last
    module_kind,         \* what GetModuleHandle and the PE header give
    image,               \* bytes of the module image that is searched
    pattern,
    mask,
    mask_end,            \* the character stored right after the mask
    found                \* NULL or << what search_memory_pattern returned >>

VARIABLES
    arena,               \* NULL or << an allocator value used on its own >>
    alast,               \* the last call on it, with the allocator before it
    n_calls              \* number of calls made on it so far

VARIABLES
    protect,             \* protection of each page that holds pmem
    faulted,             \* a store hit a page that was not writable
    mlast,               \* the last memory primitive, with the state before
    n_mem                \* number of memory primitives called so far

VARIABLES
    at_stmt,             \* 0, or the statement of install() that runs next
    flushed              \* ready() was called after the last arena write

hook_vars ==
    << mem, m_hookee, m_hooker, m_size, m_original_code, m_trampoline_code,
       m_flags, m_call_abs, regions, n_alloc, bad_free, alive, executable,
       chained, touched, prev, last >>

unit_vars == << unit >>

patch_vars == << m_units, patch_alive, patch_used >>

scope_vars == << scopes >>

search_vars == << module_kind, image, pattern, mask, mask_end, found >>

arena_vars == << arena, alast, n_calls >>

\* the facilities that are modelled on their own
prot_vars == << protect, faulted, mlast, n_mem >>

step_vars == << at_stmt, flushed >>

ext_vars == << arena_vars, prot_vars, step_vars >>

\* everything but the hook record and the hookee
lib_vars ==
    << pmem, plast, unit_vars, patch_vars, scope_vars, search_vars,
       ext_vars >>

vars == << hook_vars, lib_vars >>

\* ------------------------------------------------------------------------
\* Hookee prologues
\* ------------------------------------------------------------------------

Instrs ==
    { << 144 >>,                          \* nop
      << 131, 236, 8 >>,                  \* sub esp, 8
      << 184, 1, 0, 0, 0 >>,              \* mov eax, 1
      << 232, 16, 0, 0, 0 >>,             \* call +0x10
      << 232, 240, 255, 255, 255 >>,      \* call -0x10
      << 233, 32, 0, 0, 0 >>,             \* jmp  +0x20
      << 235, 2 >>,                       \* jmp short +2
      << 235, 250 >>,                     \* jmp short -6
      << 116, 2 >>,                       \* jz  short +2
      << 15, 133, 192, 255, 255, 255 >>,  \* jnz near -0x40
      << 255, 255 >> }                    \* not an instruction

RECURSIVE Concat(_)
Concat(ss) == IF ss = << >> THEN << >> ELSE Head(ss) \o Concat(Tail(ss))

\* the instruction lists of 1 .. MaxInstrs instructions
InstrLists == UNION { [1 .. n -> Instrs] : n \in 1 .. MaxInstrs }

\* memory image of a prologue: its instructions, then nops
Image(is) ==
    LET bs == Concat(is) IN
    [i \in 0 .. MemLen - 1 |-> IF i < Len(bs) THEN bs[i + 1] ELSE 144]

\* ------------------------------------------------------------------------
\* Observer: the last two operations
\* ------------------------------------------------------------------------

Entry(op, path) ==
    [op |-> op, path |-> path, mem |-> mem, tramp |-> m_trampoline_code,
     flags |-> m_flags, orig |-> m_original_code, n_alloc |-> n_alloc]

NoEntry ==
    [op |-> "none", path |-> "none", mem |-> [i \in 0 .. MemLen - 1 |-> 0],
     tramp |-> NULL, flags |-> {}, orig |-> NULL, n_alloc |-> 0]

Record(e) == prev' = last /\ last' = e

\* ------------------------------------------------------------------------
\* The parts of the state a specification does not exercise stay as they
\* are when no object of that kind has been constructed
\* ------------------------------------------------------------------------

NoPatchEntry == [op |-> "none", pmem |-> << >>, arg |-> << >>, writes |-> 0]

UnitIdle == unit = NULL

PatchIdle ==
    m_units = << >> /\ patch_alive = FALSE /\ patch_used = FALSE

ScopeIdle == scopes = << >>

SearchIdle ==
    /\ module_kind = "missing"
    /\ image = << >>
    /\ pattern = << >>
    /\ mask = << >>
    /\ mask_end = 0
    /\ found = NULL

PMemIdle == pmem = << >> /\ plast = NoPatchEntry

NoArenaEntry == [op |-> "none", before |-> << >>, need |-> 0, arg |-> 0]

ArenaIdle == arena = NULL /\ alast = NoArenaEntry /\ n_calls = 0

NoMemEntry ==
    [op |-> "none", at |-> 0, size |-> 0, ok |-> FALSE, pmem |-> << >>,
     protect |-> << >>]

ProtIdle ==
    /\ protect = << >> /\ faulted = FALSE /\ mlast = NoMemEntry
    /\ n_mem = 0

StepIdle == at_stmt = 0 /\ flushed = FALSE

ExtIdle == ArenaIdle /\ ProtIdle /\ StepIdle

LibIdle ==
    /\ PMemIdle /\ UnitIdle /\ PatchIdle /\ ScopeIdle /\ SearchIdle
    /\ ExtIdle

Init ==
    /\ LibIdle
    /\ \E is \in InstrLists : mem = Image(is)
    /\ m_hookee \in Hookees
    /\ m_hooker \in Hookers
    /\ executable \in BOOLEAN
    /\ m_size = ctor_scan(mem, 0, 0).m_size
    /\ m_flags = ctor_flags(mem, executable)
    /\ m_call_abs = Word(0)
    /\ m_original_code = NULL
    /\ m_trampoline_code = NULL
    /\ regions = [b \in ArenaBases |-> "free"]
    /\ n_alloc = 0
    /\ bad_free = FALSE
    /\ alive = TRUE
    /\ chained = NULL
    /\ touched = FALSE
    /\ prev = NoEntry
    /\ last = NoEntry

\* ------------------------------------------------------------------------
\* memhook::install
\* ------------------------------------------------------------------------

\* the arena after the emission of the stub, the redirect slot and, unless
\* the hookee is a call site, the relocated prologue
emit_layout(a, m, hookee, hooker, size, isCall) ==
    LET stub == pop(mov_abs(mov_reg(push(a, Eax), Eax, Esp, 4), ContextAddr, Eax), Eax)
        slot == jmp(stub, hooker)
    IN  IF ~isCall THEN generate_trampoline_instructions(slot, m, hookee, size)
        ELSE slot

patch_hookee_always_jmp(m, hookee, base, size, isCall) ==
    LET m1 == StoreBytes(m, 0, << kJumpOpcode >>)
        m2 == StoreBytes(m1, 1, LE32(get_relative_address(base, hookee, 5)))
    IN  IF size > kJumpSize THEN FillBytes(m2, kJumpSize, kNopOpcode, size - kJumpSize)
        ELSE m2

\* the hookee after "Patching `hookee`"
patch_hookee(m, hookee, base, size, isCall) ==
    LET m1 == IF ~isCall THEN StoreBytes(m, 0, << kJumpOpcode >>) ELSE m
        m2 == StoreBytes(m1, 1, LE32(get_relative_address(base, hookee, 5)))
    IN  IF size > kJumpSize THEN FillBytes(m2, kJumpSize, kNopOpcode, size - kJumpSize)
        ELSE m2

install_refused_unless_listed ==
    \/ "kInstalled" \in m_flags
    \/ "kExecutable" \notin m_flags

install_refused ==
    \/ "kInstalled" \in m_flags
    \/ "kListingBroken" \in m_flags
    \/ "kExecutable" \notin m_flags

Install ==
    /\ alive
    /\ IF install_refused THEN
           /\ Record(Entry("install", "refused"))
           /\ UNCHANGED << mem, m_original_code, m_trampoline_code, m_flags,
                           m_call_abs, regions, n_alloc >>
       ELSE IF m_original_code # NULL THEN
           /\ m_trampoline_code' =
                  << jmp(set_offset(m_trampoline_code[1], kSlotOffset), m_hooker) >>
           /\ m_flags' = m_flags \cup {"kInstalled"}
           /\ Record(Entry("install", "again"))
           /\ UNCHANGED << mem, m_original_code, m_call_abs, regions, n_alloc >>
       ELSE
           /\ n_alloc < MaxAllocs
           /\ \E base \in ArenaBases :
                  /\ regions[base] # "live"
                  /\ LET hs == hde32_disasm(mem, 0)
                         isCall == (hs.opcode = kCallOpcode)
                     IN  /\ m_call_abs' =
                                IF isCall
                                THEN restore_absolute_address(hs.imm, m_hookee, 5)
                                ELSE m_call_abs
                         /\ m_original_code' = << ReadBytes(mem, 0, m_size) >>
                         /\ m_trampoline_code' =
                                << emit_layout(basic_allocator(base, kPageSize4Kb), mem,
                                               m_hookee, m_hooker, m_size, isCall) >>
                         /\ mem' = patch_hookee(mem, m_hookee, base, m_size, isCall)
                         /\ m_flags' = m_flags \cup {"kInstalled"}
                                \cup (IF isCall THEN {"kCallInstruction"} ELSE {})
                  /\ regions' = [regions EXCEPT ![base] = "live"]
           /\ n_alloc' = n_alloc + 1
           /\ Record(Entry("install", "fresh"))
    /\ UNCHANGED << m_hookee, m_hooker, m_size, bad_free, alive, executable,
                    chained, touched >>
    /\ UNCHANGED lib_vars

\* ------------------------------------------------------------------------
\* memhook::remove
\* ------------------------------------------------------------------------

\* region bytes with n copies of value stored from offset off
RECURSIVE FillCode(_, _, _, _)
FillCode(code, off, value, n) ==
    IF n = 0 THEN code ELSE FillCode(Poke(code, off, value), off + 1, value, n - 1)

remove_path_error_only ==
    IF "kInstalled" \notin m_flags THEN "noop"
    ELSE
        LET hs == hde32_disasm(mem, 0) IN
        IF hs.F_ERROR THEN "unload"
        ELSE
            LET destination == restore_absolute_address(hs.imm, m_hookee, hs.len)
                trampoline == get(m_trampoline_code[1], 0)
            IN  IF destination = trampoline \/ destination = m_call_abs
                THEN "unload" ELSE "patch"

\* which way remove() goes
remove_path ==
    IF "kInstalled" \notin m_flags THEN "noop"
    ELSE
        LET hs == hde32_disasm(mem, 0) IN
        IF hs.F_ERROR \/ ~hs.F_RELATIVE \/ ~hs.F_IMM32 THEN "unload"
        ELSE
            LET destination == restore_absolute_address(hs.imm, m_hookee, hs.len)
                trampoline == get(m_trampoline_code[1], 0)
            IN  IF destination = trampoline \/ destination = m_call_abs
                THEN "unload" ELSE "patch"

unload_hook_jump_only ==
    [mem |-> StoreBytes(mem, 0, SubSeq(m_original_code[1], 1, kJumpSize)),
     tramp |-> NULL,
     orig |-> NULL,
     flags |-> {},
     regions |-> [regions EXCEPT ![m_trampoline_code[1].m_code] = "released"],
     bad_free |-> bad_free \/ regions[m_trampoline_code[1].m_code] # "live"]

\* the state unload_hook leaves
unload_hook ==
    [mem |-> StoreBytes(mem, 0, SubSeq(m_original_code[1], 1, m_size)),
     tramp |-> NULL,
     orig |-> NULL,
     flags |-> {},
     regions |-> [regions EXCEPT ![m_trampoline_code[1].m_code] = "released"],
     bad_free |-> bad_free \/ regions[m_trampoline_code[1].m_code] # "live"]

patch_hook_nops ==
    [mem |-> mem,
     tramp |-> << [m_trampoline_code[1] EXCEPT
                      !.code = FillCode(@, kSlotOffset, kNopOpcode, kJumpSize)] >>,
     orig |-> m_original_code,
     flags |-> m_flags \ {"kInstalled"},
     regions |-> regions,
     bad_free |-> bad_free]

\* the state patch_hook leaves
patch_hook ==
    [mem |-> mem,
     tramp |-> IF "kCallInstruction" \in m_flags
               THEN << jmp(set_offset(m_trampoline_code[1], kSlotOffset), m_call_abs) >>
               ELSE << [m_trampoline_code[1] EXCEPT
                          !.code = FillCode(@, kSlotOffset, kNopOpcode, kJumpSize)] >>,
     orig |-> m_original_code,
     flags |-> m_flags \ {"kInstalled"},
     regions |-> regions,
     bad_free |-> bad_free]

remove_result_keeps_flags ==
    IF remove_path = "unload"
    THEN [unload_hook EXCEPT !.flags = m_flags \ {"kInstalled"}]
    ELSE IF remove_path = "patch" THEN patch_hook
    ELSE [mem |-> mem, tramp |-> m_trampoline_code, orig |-> m_original_code,
          flags |-> m_flags, regions |-> regions, bad_free |-> bad_free]

\* the state remove() leaves
remove_result ==
    IF remove_path = "unload" THEN unload_hook
    ELSE IF remove_path = "patch" THEN patch_hook
    ELSE [mem |-> mem, tramp |-> m_trampoline_code, orig |-> m_original_code,
          flags |-> m_flags, regions |-> regions, bad_free |-> bad_free]

Remove ==
    /\ alive
    /\ mem' = remove_result.mem
    /\ m_trampoline_code' = remove_result.tramp
    /\ m_original_code' = remove_result.orig
    /\ m_flags' = remove_result.flags
    /\ regions' = remove_result.regions
    /\ bad_free' = remove_result.bad_free
    /\ Record(Entry("remove", remove_path))
    /\ UNCHANGED << m_hookee, m_hooker, m_size, m_call_abs, n_alloc, alive,
                    executable, chained, touched >>
    /\ UNCHANGED lib_vars

\* ~memhook: remove(), then the members are destroyed; the allocator has
\* no destructor, so destroying m_trampoline_code releases no region
Destroy ==
    /\ alive
    /\ alive' = FALSE
    /\ mem' = remove_result.mem
    /\ m_trampoline_code' = NULL
    /\ m_original_code' = NULL
    /\ m_flags' = remove_result.flags
    /\ regions' = remove_result.regions
    /\ bad_free' = remove_result.bad_free
    /\ Record(Entry("destroy", remove_path))
    /\ UNCHANGED << m_hookee, m_hooker, m_size, m_call_abs, n_alloc,
                    executable, chained, touched >>
    /\ UNCHANGED lib_vars

\* ------------------------------------------------------------------------
\* memhook::call
\* ------------------------------------------------------------------------

call_address_body == get(m_trampoline_code[1], kBodyOffset)

\* the address call() hands to call_function
call_address ==
    IF "kCallInstruction" \in m_flags THEN m_call_abs
    ELSE get(m_trampoline_code[1], kBodyOffset)

\* call() is const: it reads m_flags, m_call_abs and the arena and leaves
\* the record as it is; it is made on a record whose dispatch address is
\* defined (a call site, or an arena to take the address from)
Call ==
    /\ alive
    /\ "kCallInstruction" \in m_flags \/ m_trampoline_code # NULL
    /\ Record(Entry("call", "dispatch"))
    /\ UNCHANGED << mem, m_hookee, m_hooker, m_size, m_original_code,
                    m_trampoline_code, m_flags, m_call_abs, regions, n_alloc,
                    bad_free, alive, executable, chained, touched >>
    /\ UNCHANGED lib_vars

\* ------------------------------------------------------------------------
\* Third parties writing to the hookee
\* ------------------------------------------------------------------------

\* first bytes a third party may leave at the hookee: mov eax imm32 (not
\* relative), jmp short (not imm32), and a byte that is no instruction
CorruptBytes == {184, 235, 255}

\* a third party detours the (already hooked) site to its own entry
ThirdPartyChain ==
    /\ alive
    /\ "kInstalled" \in m_flags
    /\ chained = NULL
    /\ mem[0] \in {kCallOpcode, kJumpOpcode}
    /\ \E target \in ChainTargets :
           mem' = StoreBytes(mem, 1, LE32(get_relative_address(target, m_hookee, 5)))
    /\ chained' = << ReadBytes(mem, 1, 4) >>
    /\ touched' = TRUE
    /\ Record(Entry("chain", "write"))
    /\ UNCHANGED << m_hookee, m_hooker, m_size, m_original_code,
                    m_trampoline_code, m_flags, m_call_abs, regions, n_alloc,
                    bad_free, alive, executable >>
    /\ UNCHANGED lib_vars

\* the third party takes its detour out again
ThirdPartyUnchain ==
    /\ alive
    /\ chained # NULL
    /\ mem' = StoreBytes(mem, 1, chained[1])
    /\ chained' = NULL
    /\ touched' = TRUE
    /\ Record(Entry("unchain", "write"))
    /\ UNCHANGED << m_hookee, m_hooker, m_size, m_original_code,
                    m_trampoline_code, m_flags, m_call_abs, regions, n_alloc,
                    bad_free, alive, executable >>
    /\ UNCHANGED lib_vars

\* a third party overwrites the first byte of the hooked site
ThirdPartyCorrupt ==
    /\ alive
    /\ "kInstalled" \in m_flags
    /\ mem[0] \in {kCallOpcode, kJumpOpcode}
    /\ \E b \in CorruptBytes : mem' = StoreBytes(mem, 0, << b >>)
    /\ chained' = NULL
    /\ touched' = TRUE
    /\ Record(Entry("corrupt", "write"))
    /\ UNCHANGED << m_hookee, m_hooker, m_size, m_original_code,
                    m_trampoline_code, m_flags, m_call_abs, regions, n_alloc,
                    bad_free, alive, executable >>
    /\ UNCHANGED lib_vars

Next ==
    \/ Install
    \/ Remove
    \/ Destroy
    \/ Call
    \/ ThirdPartyChain
    \/ ThirdPartyUnchain
    \/ ThirdPartyCorrupt

Spec == Init /\ [][Next]_vars

TypeOK ==
    /\ m_size \in 0 .. MaxWindow
    /\ m_flags \subseteq {"kInstalled", "kListingBroken", "kExecutable", "kCallInstruction"}
    /\ m_call_abs \in (0 .. Half - 1) \X (0 .. Half - 1)
    /\ \A i \in DOMAIN mem : mem[i] \in Byte

\* the hook engine's state while no hook record exists
HookIdle ==
    /\ mem = [i \in 0 .. MemLen - 1 |-> kNopOpcode]
    /\ m_hookee = Word(0)
    /\ m_hooker = Word(0)
    /\ executable = FALSE
    /\ m_size = 0
    /\ m_flags = {}
    /\ m_call_abs = Word(0)
    /\ m_original_code = NULL
    /\ m_trampoline_code = NULL
    /\ regions = [b \in ArenaBases |-> "free"]
    /\ n_alloc = 0
    /\ bad_free = FALSE
    /\ alive = FALSE
    /\ chained = NULL
    /\ touched = FALSE
    /\ prev = NoEntry
    /\ last = NoEntry

\* ------------------------------------------------------------------------
\* scoped_patch_unit.  Addresses of patched memory are offsets into pmem;
\* the module a unit names is loaded at offset ModuleHandle.
\* ------------------------------------------------------------------------

\* copy_memory(dst, src, size) on memory m: size bytes of src stored at dst
copy_memory(m, dst, src, size) == StoreBytes(m, dst, SubSeq(src, 1, size))

\* fill_memory(at, value, size) on memory m
fill_memory(m, at, value, size) == FillBytes(m, at, value, size)

\* GetModuleHandle(mod.data())
ModuleHandle == 0

\* sizeof(*HMODULE): HMODULE points to a struct of one int, and adding an
\* integer to it advances by that many structs
kSizeofHandleTarget == 4

\* the bytes patched memory holds before any patch
PMemInit == [i \in 0 .. PMemLen - 1 |-> 16 + i]

\* constructor calls: which constructor, the address (or the offset into
\* the module), the replacement and, where the caller supplies it, the
\* original
UnitArgs ==
    { [ctor |-> "address", where |-> 0,
       replacement |-> << 1, 1 >>, original |-> << >>],
      [ctor |-> "address", where |-> 1,
       replacement |-> << 2, 2 >>, original |-> << >>],
      [ctor |-> "address_original", where |-> 1,
       replacement |-> << 2 >>, original |-> << 3, 3 >>],
      [ctor |-> "address_original", where |-> 0,
       replacement |-> << 1, 2 >>, original |-> << 3 >>],
      [ctor |-> "address_original", where |-> 1,
       replacement |-> << 2, 2 >>, original |-> << 3, 3 >>],
      [ctor |-> "module", where |-> 1,
       replacement |-> << 2 >>, original |-> << >>],
      [ctor |-> "module_original", where |-> 1,
       replacement |-> << 1 >>, original |-> << 20 >>] }

\* the unit a constructor call makes when the memory is m
scoped_patch_unit(m, a) ==
    LET address ==
            IF a.ctor = "module_original"
            THEN ModuleHandle + kSizeofHandleTarget * a.where
            ELSE IF a.ctor = "module" THEN ModuleHandle + a.where
            ELSE a.where
    IN  [m_address |-> address,
         m_replacement |-> a.replacement,
         m_original |->
             IF a.ctor \in {"address_original", "module_original"}
             THEN a.original
             ELSE ReadBytes(m, address, Len(a.replacement))]

\* scoped_patch_unit::install
unit_install(m, u) ==
    copy_memory(m, u.m_address, u.m_replacement, Len(u.m_replacement))

unit_restore_replacement(m, u) ==
    copy_memory(m, u.m_address, u.m_replacement, Len(u.m_replacement))

\* scoped_patch_unit::restore
unit_restore(m, u) ==
    copy_memory(m, u.m_address, u.m_original, Len(u.m_original))

\* observer: the operation, the memory before it, the object it was made
\* on and the number of stores it made
PatchEntry(op, arg, writes) ==
    [op |-> op, pmem |-> pmem, arg |-> arg, writes |-> writes]

UnitInit ==
    /\ HookIdle /\ ExtIdle /\ PatchIdle /\ ScopeIdle /\ SearchIdle
    /\ pmem = PMemInit
    /\ plast = NoPatchEntry
    /\ unit = NULL

UnitConstruct ==
    /\ unit = NULL
    /\ \E a \in UnitArgs : unit' = << scoped_patch_unit(pmem, a) >>
    /\ plast' = PatchEntry("construct", unit, 0)
    /\ UNCHANGED << pmem, hook_vars, ext_vars, patch_vars, scope_vars, search_vars >>

UnitInstall ==
    /\ unit # NULL
    /\ pmem' = unit_install(pmem, unit[1])
    /\ plast' = PatchEntry("install", unit, 1)
    /\ UNCHANGED << unit, hook_vars, ext_vars, patch_vars, scope_vars, search_vars >>

UnitRestore ==
    /\ unit # NULL
    /\ pmem' = unit_restore(pmem, unit[1])
    /\ plast' = PatchEntry("restore", unit, 1)
    /\ UNCHANGED << unit, hook_vars, ext_vars, patch_vars, scope_vars, search_vars >>

\* the unit goes out of scope; it has no destructor of its own
UnitDestroy ==
    /\ unit # NULL
    /\ unit' = NULL
    /\ plast' = PatchEntry("destroy", unit, 0)
    /\ UNCHANGED << pmem, hook_vars, ext_vars, patch_vars, scope_vars, search_vars >>

UnitNext ==
    \/ UnitConstruct
    \/ UnitInstall
    \/ UnitRestore
    \/ UnitDestroy

UnitSpec == UnitInit /\ [][UnitNext]_vars

\* ------------------------------------------------------------------------
\* scoped_patch: a group of units
\* ------------------------------------------------------------------------

\* for (auto& unit : m_units) unit.install();
RECURSIVE patch_install(_, _)
patch_install(m, units) ==
    IF units = << >> THEN m
    ELSE patch_install(unit_install(m, Head(units)), Tail(units))

RECURSIVE patch_remove_reversed(_, _)
patch_remove_reversed(m, units) ==
    IF units = << >> THEN m
    ELSE unit_restore(patch_remove_reversed(m, Tail(units)), Head(units))

\* for (auto& unit : m_units) unit.restore();
RECURSIVE patch_remove(_, _)
patch_remove(m, units) ==
    IF units = << >> THEN m
    ELSE patch_remove(unit_restore(m, Head(units)), Tail(units))

PatchInit ==
    /\ HookIdle /\ ExtIdle /\ UnitIdle /\ ScopeIdle /\ SearchIdle
    /\ pmem = PMemInit
    /\ plast = NoPatchEntry
    /\ m_units = << >>
    /\ patch_alive = TRUE
    /\ patch_used = FALSE

\* patch.add(scoped_patch_unit{ ... }): the unit is constructed, capturing
\* its backup where none is supplied, and copied to the end of m_units
PatchAdd ==
    /\ patch_alive
    /\ Len(m_units) < MaxUnits
    /\ \E a \in UnitArgs :
           m_units' = Append(m_units, scoped_patch_unit(pmem, a))
    /\ plast' = PatchEntry("add", m_units, 0)
    /\ UNCHANGED << pmem, patch_alive, patch_used, hook_vars, ext_vars,
                    unit_vars, scope_vars, search_vars >>

PatchInstall ==
    /\ patch_alive
    /\ pmem' = patch_install(pmem, m_units)
    /\ plast' = PatchEntry("install", m_units, Len(m_units))
    /\ patch_used' = TRUE
    /\ UNCHANGED << m_units, patch_alive, hook_vars, ext_vars, unit_vars,
                    scope_vars, search_vars >>

PatchRemove ==
    /\ patch_alive
    /\ pmem' = patch_remove(pmem, m_units)
    /\ plast' = PatchEntry("remove", m_units, Len(m_units))
    /\ UNCHANGED << m_units, patch_alive, patch_used, hook_vars, ext_vars,
                    unit_vars, scope_vars, search_vars >>

PatchToggle ==
    /\ patch_alive
    /\ \E status \in BOOLEAN :
           /\ pmem' = IF status THEN patch_install(pmem, m_units)
                      ELSE patch_remove(pmem, m_units)
           /\ plast' = PatchEntry(IF status THEN "toggle_true" ELSE "toggle_false",
                                  m_units, Len(m_units))
           /\ patch_used' = (patch_used \/ status)
    /\ UNCHANGED << m_units, patch_alive, hook_vars, ext_vars, unit_vars,
                    scope_vars, search_vars >>

\* ~scoped_patch: remove(), then the units are destroyed
PatchDestroy ==
    /\ patch_alive
    /\ pmem' = patch_remove(pmem, m_units)
    /\ m_units' = << >>
    /\ patch_alive' = FALSE
    /\ plast' = PatchEntry("destroy", m_units, Len(m_units))
    /\ UNCHANGED << patch_used, hook_vars, ext_vars, unit_vars, scope_vars,
                    search_vars >>

PatchNext ==
    \/ PatchAdd
    \/ PatchInstall
    \/ PatchRemove
    \/ PatchToggle
    \/ PatchDestroy

PatchSpec == PatchInit /\ [][PatchNext]_vars

\* ------------------------------------------------------------------------
\* scoped_write<T>, scoped_copy<bufsize>, scoped_fill<bufsize> and
\* single-unit scoped_patch objects in nested scopes.  scopes holds the
\* live objects, innermost last; next to each object it keeps, for the
\* properties, the memory as it was before the object was applied (seen)
\* and whether every backup taken since then held the bytes that were at
\* its target (faithful).  The delayed install() members are not used.
\* ------------------------------------------------------------------------

\* constructor calls: the class, the address and the bytes the constructor
\* stores: scoped_write<uint16_t>, scoped_write<uint8_t>, scoped_copy<2>
\* and scoped_fill<2> with value 3
ScopeArgs ==
    { [kind |-> "write", at |-> 0, data |-> << 1, 1 >>],
      [kind |-> "write", at |-> 1, data |-> << 2 >>],
      [kind |-> "copy", at |-> 1, data |-> << 2, 2 >>],
      [kind |-> "fill", at |-> 0, data |-> << 3, 3 >>] }

\* constructor calls of the units of single-unit groups: those whose backup
\* is as long as the replacement
NestedUnitArgs ==
    { a \in UnitArgs :
          a.ctor \in {"address", "module"}
              \/ Len(a.original) = Len(a.replacement) }

scoped_object_backup_after(m, a) ==
    [kind |-> a.kind, m_pointer |-> a.at, m_initialized |-> TRUE,
     m_buf |-> a.data]

\* the object a constructor leaves: the backup is read before the store
scoped_object(m, a) ==
    [kind |-> a.kind, m_pointer |-> a.at, m_initialized |-> TRUE,
     m_buf |-> ReadBytes(m, a.at, Len(a.data))]

\* the store a constructor makes
scoped_store(m, a) ==
    IF a.kind = "fill" THEN fill_memory(m, a.at, a.data[1], Len(a.data))
    ELSE copy_memory(m, a.at, a.data, Len(a.data))

\* restore() of a scoped object, or remove() of a group
scoped_restore(m, o) ==
    IF o.kind = "patch" THEN patch_remove(m, o.m_units)
    ELSE IF o.m_initialized THEN copy_memory(m, o.m_pointer, o.m_buf, Len(o.m_buf))
    ELSE m

\* the object after restore(): the backup is marked as used
scoped_restored(o) ==
    IF o.kind = "patch" THEN o ELSE [o EXCEPT !.m_initialized = FALSE]

\* stores made by restore() / remove()
scoped_writes(o) ==
    IF o.kind = "patch" THEN Len(o.m_units)
    ELSE IF o.m_initialized THEN 1 ELSE 0

Innermost == scopes[Len(scopes)]

ScopeInit ==
    /\ HookIdle /\ ExtIdle /\ UnitIdle /\ PatchIdle /\ SearchIdle
    /\ pmem = PMemInit
    /\ plast = NoPatchEntry
    /\ scopes = << >>

\* a scoped_write / scoped_copy / scoped_fill is constructed in a new scope
ScopeApply ==
    /\ Len(scopes) < MaxScopes
    /\ \E a \in ScopeArgs :
           /\ scopes' = Append(scopes, [obj |-> scoped_object(pmem, a),
                                        seen |-> pmem, faithful |-> TRUE])
           /\ pmem' = scoped_store(pmem, a)
           /\ plast' = PatchEntry("apply", a, 1)
    /\ UNCHANGED << hook_vars, ext_vars, unit_vars, patch_vars, search_vars >>

\* scoped_patch p{ { unit } }; p.install(); in a new scope
ScopePatch ==
    /\ Len(scopes) < MaxScopes
    /\ \E a \in NestedUnitArgs :
           LET u == scoped_patch_unit(pmem, a)
               held == u.m_original
                           = ReadBytes(pmem, u.m_address, Len(u.m_replacement))
               outer == IF held THEN scopes
                        ELSE [k \in DOMAIN scopes |->
                                 [scopes[k] EXCEPT !.faithful = FALSE]]
           IN  /\ scopes' = Append(outer,
                                 [obj |-> [kind |-> "patch", m_units |-> << u >>],
                                  seen |-> pmem, faithful |-> held])
               /\ pmem' = patch_install(pmem, << u >>)
               /\ plast' = PatchEntry("apply",
                                      [kind |-> "patch", at |-> u.m_address,
                                       data |-> u.m_replacement], 1)
    /\ UNCHANGED << hook_vars, ext_vars, unit_vars, patch_vars, search_vars >>

\* restore() (remove() for a group) called on the innermost object
ScopeRestore ==
    /\ scopes # << >>
    /\ pmem' = scoped_restore(pmem, Innermost.obj)
    /\ scopes' = [scopes EXCEPT ![Len(scopes)].obj = scoped_restored(@)]
    /\ plast' = PatchEntry("restore", Innermost, scoped_writes(Innermost.obj))
    /\ UNCHANGED << hook_vars, ext_vars, unit_vars, patch_vars, search_vars >>

\* the innermost scope ends: the destructor calls restore() / remove()
ScopeDestroy ==
    /\ scopes # << >>
    /\ pmem' = scoped_restore(pmem, Innermost.obj)
    /\ scopes' = SubSeq(scopes, 1, Len(scopes) - 1)
    /\ plast' = PatchEntry("destroy", Innermost, scoped_writes(Innermost.obj))
    /\ UNCHANGED << hook_vars, ext_vars, unit_vars, patch_vars, search_vars >>

ScopeNext ==
    \/ ScopeApply
    \/ ScopePatch
    \/ ScopeRestore
    \/ ScopeDestroy

ScopeSpec == ScopeInit /\ [][ScopeNext]_vars

\* ------------------------------------------------------------------------
\* Signature search (memwrapper_llmo.hpp, search_memory_pattern)
\* ------------------------------------------------------------------------

\* mbi.AllocationBase of the module that is searched
ImageBase == 64

\* the characters of a mask, as character codes
kRequired == 120
kWildcard == 63
kNul == 0

SearchBytes == { 17, 34 }

MaskChars == { kRequired, kWildcard, kNul }

\* what GetModuleHandle, VirtualQuery and the PE signature give
ModuleKinds == { "missing", "unqueryable", "bad_pe", "loaded" }

Images == UNION { [1 .. n -> SearchBytes] : n \in 1 .. ImageLen }

Masks == UNION { [1 .. n -> MaskChars] : n \in 0 .. MaxMaskLen }

Patterns == UNION { [1 .. n -> SearchBytes] : n \in 0 .. MaxMaskLen }

\* mask[mask.size()] is outside the string_view: the build reads whatever
\* character is stored after the mask, the terminator of a literal or
\* the next character of a longer string
MaskEnds == { kNul, kRequired }

\* the for loop over the mask at position at (now), entered at index i: the
\* index it ends with
RECURSIVE mask_loop(_, _, _, _, _)
mask_loop(img, pat, msk, at, i) ==
    IF i >= Len(msk) THEN i
    ELSE IF at + i >= Len(img) THEN i
    ELSE IF msk[i + 1] = kWildcard THEN mask_loop(img, pat, msk, at, i + 1)
    ELSE IF img[at + i + 1] # pat[i + 1] THEN i
    ELSE mask_loop(img, pat, msk, at, i + 1)

\* mask[i] as the test after the loop reads it
mask_at(msk, after, i) == IF i < Len(msk) THEN msk[i + 1] ELSE after

\* the while loop from position at
RECURSIVE search_scan(_, _, _, _, _)
search_scan(img, pat, msk, after, at) ==
    IF at >= Len(img) THEN 0
    ELSE IF mask_at(msk, after, mask_loop(img, pat, msk, at, 0)) = kNul
         THEN ImageBase + at
    ELSE search_scan(img, pat, msk, after, at + 1)

search_memory_pattern(kind, img, pat, msk, after) ==
    IF kind # "loaded" THEN 0 ELSE search_scan(img, pat, msk, after, 0)

\* the pattern holds a byte for every character of the mask
SearchInit ==
    /\ HookIdle /\ ExtIdle /\ UnitIdle /\ PatchIdle /\ ScopeIdle /\ PMemIdle
    /\ module_kind \in ModuleKinds
    /\ image \in Images
    /\ mask \in Masks
    /\ pattern \in { p \in Patterns : Len(p) >= Len(mask) }
    /\ mask_end \in MaskEnds
    /\ found = NULL

Search ==
    /\ found' = << search_memory_pattern(module_kind, image, pattern, mask,
                                         mask_end) >>
    /\ UNCHANGED << module_kind, image, pattern, mask, mask_end >>
    /\ UNCHANGED << pmem, plast, hook_vars, ext_vars, unit_vars, patch_vars,
                    scope_vars >>

SearchNext == Search

SearchSpec == SearchInit /\ [][SearchNext]_vars

\* ------------------------------------------------------------------------
\* An arena used on its own (basic_allocator / asm_allocator): appends and
\* set_offset in any order, with the cursor also taken close to capacity
\* ------------------------------------------------------------------------

\* offsets set_offset is called with: the start, the last ArenaSlack
\* offsets before capacity, capacity and one past it
ArenaOffsets(a) == { 0 } \cup ((a.m_size - ArenaSlack) .. (a.m_size + 1))

\* the append calls: name, allocator after the call, bytes it emits
ArenaAppends(a) ==
    { [op |-> "db", after |-> db(a, kNopOpcode), need |-> 1],
      [op |-> "db_bytes", after |-> dbseq(a, << 1, 2, 3 >>), need |-> 3],
      [op |-> "dbvalue", after |-> dbvalue(a, << 4660, 22136 >>), need |-> 4],
      [op |-> "jmp", after |-> jmp(a, << 64, 4096 >>), need |-> 5],
      [op |-> "push", after |-> push(a, Eax), need |-> 1],
      [op |-> "pop", after |-> pop(a, Eax), need |-> 1],
      [op |-> "mov", after |-> mov_reg(a, Eax, Esp, 4), need |-> 4],
      [op |-> "mov", after |-> mov_abs(a, ContextAddr, Eax), need |-> 5] }

ArenaInit ==
    /\ HookIdle /\ PMemIdle /\ UnitIdle /\ PatchIdle /\ ScopeIdle
    /\ SearchIdle /\ ProtIdle /\ StepIdle
    /\ \E base \in ArenaBases :
           arena = << basic_allocator(base, kPageSize4Kb) >>
    /\ alast = NoArenaEntry
    /\ n_calls = 0

ArenaAppend ==
    /\ n_calls < MaxCalls
    /\ \E c \in ArenaAppends(arena[1]) :
           /\ arena' = << c.after >>
           /\ alast' = [op |-> c.op, before |-> arena[1], need |-> c.need,
                        arg |-> 0]
    /\ n_calls' = n_calls + 1
    /\ UNCHANGED << hook_vars, pmem, plast, unit_vars, patch_vars,
                    scope_vars, search_vars, prot_vars, step_vars >>

ArenaSetOffset ==
    /\ n_calls < MaxCalls
    /\ \E n \in ArenaOffsets(arena[1]) :
           /\ arena' = << set_offset(arena[1], n) >>
           /\ alast' = [op |-> "set_offset", before |-> arena[1],
                        need |-> 0, arg |-> n]
    /\ n_calls' = n_calls + 1
    /\ UNCHANGED << hook_vars, pmem, plast, unit_vars, patch_vars,
                    scope_vars, search_vars, prot_vars, step_vars >>

ArenaNext ==
    \/ ArenaAppend
    \/ ArenaSetOffset

ArenaSpec == ArenaInit /\ [][ArenaNext]_vars

\* ------------------------------------------------------------------------
\* Memory primitives under scoped_unprotect (memwrapper_llmo.hpp): pmem is
\* the memory around a page boundary, protect the protection of its pages
\* ------------------------------------------------------------------------

\* protections the pages start with
Prots == { "ReadOnly", "ReadWrite", "ExecuteRead" }

\* address of pmem[0]: the boundary of two pages lies in the middle
MemBase == kPageSize4Kb - (PMemLen \div 2)

PageOf(i) == (MemBase + i) \div kPageSize4Kb

Pages == { PageOf(i) : i \in 0 .. PMemLen - 1 }

\* the pages that hold a byte of [at, at + size)
PagesOf(at, size) == { PageOf(i) : i \in at .. (at + size - 1) }

Writable(prot, at, size) ==
    \A p \in PagesOf(at, size) : prot[p] \in { "ReadWrite", "ExecuteReadWrite" }

\* VirtualProtect(pointer, size, new, &old) when the OS accepts it: every
\* page of the range gets the new protection; old receives the protection
\* of the first page of the range
VirtualProtect(prot, at, size, new) ==
    [p \in DOMAIN prot |-> IF p \in PagesOf(at, size) THEN new ELSE prot[p]]

\* scoped_unprotect::scoped_unprotect; accepted is what VirtualProtect
\* returns.  m_protection is not written when the call is refused.
scoped_unprotect(prot, at, size, accepted) ==
    [m_pointer |-> at, m_size |-> size, m_result |-> accepted,
     m_protection |-> IF accepted THEN << prot[PageOf(at)] >> ELSE NULL]

\* the protections while the scope u is held
unprotected(prot, u) ==
    IF u.m_result
    THEN VirtualProtect(prot, u.m_pointer, u.m_size, "ExecuteReadWrite")
    ELSE prot

\* scoped_unprotect::~scoped_unprotect
unprotect_release(prot, u) ==
    IF u.m_result
    THEN VirtualProtect(prot, u.m_pointer, u.m_size, u.m_protection[1])
    ELSE prot

\* sizeof(T) of the typed primitives
TypeSizes == { 1, 2, 4 }

\* sizes fill_memory and copy_memory are called with
BlockSizes == { 1, 3 }

MemEntry(op, at, size, ok) ==
    [op |-> op, at |-> at, size |-> size, ok |-> ok, pmem |-> pmem,
     protect |-> protect]

MemInit ==
    /\ HookIdle /\ UnitIdle /\ PatchIdle /\ ScopeIdle /\ SearchIdle
    /\ ArenaIdle /\ StepIdle
    /\ pmem = PMemInit
    /\ plast = NoPatchEntry
    /\ protect \in [Pages -> Prots]
    /\ faulted = FALSE
    /\ mlast = NoMemEntry
    /\ n_mem = 0

\* the primitive may be called: the process has not faulted
MemReady == ~faulted /\ n_mem < MaxMemCalls

\* a primitive that stores under one scope: the store is made whether or
\* not the protection change was accepted, and faults on a page that is
\* not writable
StoreUnder(op, at, size, accepted, after) ==
    LET u == scoped_unprotect(protect, at, size, accepted)
        held == unprotected(protect, u)
        can == Writable(held, at, size)
    IN  /\ pmem' = IF can THEN after ELSE pmem
        /\ faulted' = ~can
        /\ protect' = unprotect_release(held, u)
        /\ mlast' = MemEntry(op, at, size, accepted)

MemRead ==
    /\ MemReady
    /\ n_mem' = n_mem + 1
    /\ \E size \in TypeSizes, accepted \in BOOLEAN :
       \E at \in 0 .. (PMemLen - size) :
           LET u == scoped_unprotect(protect, at, size, accepted) IN
           /\ protect' = unprotect_release(unprotected(protect, u), u)
           /\ mlast' = MemEntry("read_memory", at, size, accepted)
    /\ UNCHANGED << pmem, faulted >>
    /\ UNCHANGED << plast, hook_vars, unit_vars, patch_vars, scope_vars,
                    search_vars, arena_vars, step_vars >>

MemWrite ==
    /\ MemReady
    /\ n_mem' = n_mem + 1
    /\ \E size \in TypeSizes, accepted \in BOOLEAN :
       \E at \in 0 .. (PMemLen - size) :
           StoreUnder("write_memory", at, size, accepted,
                      StoreBytes(pmem, at, [i \in 1 .. size |-> kNopOpcode]))
    /\ UNCHANGED << plast, hook_vars, unit_vars, patch_vars, scope_vars,
                    search_vars, arena_vars, step_vars >>

MemFill ==
    /\ MemReady
    /\ n_mem' = n_mem + 1
    /\ \E size \in BlockSizes, accepted \in BOOLEAN :
       \E at \in 0 .. (PMemLen - size) :
           StoreUnder("fill_memory", at, size, accepted,
                      fill_memory(pmem, at, kNopOpcode, size))
    /\ UNCHANGED << plast, hook_vars, unit_vars, patch_vars, scope_vars,
                    search_vars, arena_vars, step_vars >>

MemCopy ==
    /\ MemReady
    /\ n_mem' = n_mem + 1
    /\ \E size \in BlockSizes, accepted \in BOOLEAN :
       \E at \in 0 .. (PMemLen - size) :
           StoreUnder("copy_memory", at, size, accepted,
                      copy_memory(pmem, at,
                                  << kNopOpcode, kNopOpcode, kNopOpcode >>,
                                  size))
    /\ UNCHANGED << plast, hook_vars, unit_vars, patch_vars, scope_vars,
                    search_vars, arena_vars, step_vars >>

\* compare_memory: unprotect0 over buff1, then unprotect1 over buff2; the
\* destructors run in the reverse order
MemCompare ==
    /\ MemReady
    /\ n_mem' = n_mem + 1
    /\ \E size \in { 2 }, ok0 \in BOOLEAN, ok1 \in BOOLEAN :
       \E buff1 \in 0 .. (PMemLen - size), buff2 \in 0 .. (PMemLen - size) :
           LET unprotect0 == scoped_unprotect(protect, buff1, size, ok0)
               held0 == unprotected(protect, unprotect0)
               unprotect1 == scoped_unprotect(held0, buff2, size, ok1)
               held1 == unprotected(held0, unprotect1)
           IN  /\ protect' =
                      unprotect_release(
                          unprotect_release(held1, unprotect1), unprotect0)
               /\ mlast' = [MemEntry("compare_memory", buff1, size,
                                     ok0 /\ ok1)
                               EXCEPT !.at = << buff1, buff2 >>]
    /\ UNCHANGED << pmem, faulted >>
    /\ UNCHANGED << plast, hook_vars, unit_vars, patch_vars, scope_vars,
                    search_vars, arena_vars, step_vars >>

MemNext ==
    \/ MemRead
    \/ MemWrite
    \/ MemFill
    \/ MemCopy
    \/ MemCompare

MemSpec == MemInit /\ [][MemNext]_vars

\* ------------------------------------------------------------------------
\* memhook::install statement by statement, on a record that was never
\* installed.  at_stmt is the position in install_order of the statement that
\* runs next; last holds the state install() was entered with.
\* ------------------------------------------------------------------------

install_order_patch_before_ready ==
    << "detect", "allocate", "save", "stub", "relocate", "opcode", "ready",
       "operand", "nops", "mark" >>

\* the statements of install() after the two early returns, in their order
install_order ==
    << "detect", "allocate", "save", "stub", "relocate", "ready", "opcode",
       "operand", "nops", "mark" >>

At(statement) == at_stmt > 0 /\ install_order[at_stmt] = statement

Advance == at_stmt' = IF at_stmt = Len(install_order) THEN 0 ELSE at_stmt + 1

\* what no statement of install() writes
step_frame ==
    << m_hookee, m_hooker, m_size, bad_free, alive, executable, chained,
       touched, prev, last >>

\* everything outside the hook record
rest_vars ==
    << pmem, plast, unit_vars, patch_vars, scope_vars, search_vars,
       arena_vars, prot_vars >>

StepInit == Init

\* install() is entered and passes both early returns
StepEnter ==
    /\ at_stmt = 0
    /\ alive
    /\ ~install_refused
    /\ m_original_code = NULL
    /\ n_alloc < MaxAllocs
    /\ at_stmt' = 1
    /\ flushed' = FALSE
    /\ Record(Entry("install", "fresh"))
    /\ UNCHANGED << mem, m_hookee, m_hooker, m_size, m_original_code,
                    m_trampoline_code, m_flags, m_call_abs, regions, n_alloc,
                    bad_free, alive, executable, chained, touched >>
    /\ UNCHANGED rest_vars

\* hde32_disasm(m_hookee, &hs); if (hs.opcode == kCallOpcode) ...
StepDetect ==
    /\ At("detect")
    /\ LET hs == hde32_disasm(mem, 0) IN
       IF hs.opcode = kCallOpcode
       THEN /\ m_call_abs' = restore_absolute_address(hs.imm, m_hookee, 5)
            /\ m_flags' = m_flags \cup {"kCallInstruction"}
       ELSE UNCHANGED << m_call_abs, m_flags >>
    /\ Advance
    /\ UNCHANGED << mem, m_original_code, m_trampoline_code, regions, n_alloc,
                    flushed >>
    /\ UNCHANGED step_frame
    /\ UNCHANGED rest_vars

\* make_unique<uint8_t[]>(m_size), make_unique<asm_allocator>()
StepAllocate ==
    /\ At("allocate")
    /\ \E base \in ArenaBases :
           /\ regions[base] # "live"
           /\ m_trampoline_code' = << basic_allocator(base, kPageSize4Kb) >>
           /\ regions' = [regions EXCEPT ![base] = "live"]
    /\ m_original_code' = << [i \in 1 .. m_size |-> 0] >>
    /\ n_alloc' = n_alloc + 1
    /\ Advance
    /\ UNCHANGED << mem, m_flags, m_call_abs, flushed >>
    /\ UNCHANGED step_frame
    /\ UNCHANGED rest_vars

\* copy_memory(m_original_code.get(), m_hookee, m_size)
StepSave ==
    /\ At("save")
    /\ m_original_code' = << ReadBytes(mem, 0, m_size) >>
    /\ Advance
    /\ UNCHANGED << mem, m_trampoline_code, m_flags, m_call_abs, regions,
                    n_alloc, flushed >>
    /\ UNCHANGED step_frame
    /\ UNCHANGED rest_vars

\* push eax; mov eax, [esp + 4]; mov [&return_address], eax; pop eax;
\* jmp m_hooker
StepStub ==
    /\ At("stub")
    /\ m_trampoline_code' =
           << jmp(pop(mov_abs(mov_reg(push(m_trampoline_code[1], Eax),
                                      Eax, Esp, 4),
                              ContextAddr, Eax),
                      Eax),
                  m_hooker) >>
    /\ flushed' = FALSE
    /\ Advance
    /\ UNCHANGED << mem, m_original_code, m_flags, m_call_abs, regions,
                    n_alloc >>
    /\ UNCHANGED step_frame
    /\ UNCHANGED rest_vars

\* if not a call site: generate_trampoline_instructions()
StepRelocate ==
    /\ At("relocate")
    /\ IF "kCallInstruction" \notin m_flags
       THEN /\ m_trampoline_code' =
                   << generate_trampoline_instructions(
                          m_trampoline_code[1], mem, m_hookee, m_size) >>
            /\ flushed' = FALSE
       ELSE UNCHANGED << m_trampoline_code, flushed >>
    /\ Advance
    /\ UNCHANGED << mem, m_original_code, m_flags, m_call_abs, regions,
                    n_alloc >>
    /\ UNCHANGED step_frame
    /\ UNCHANGED rest_vars

\* m_trampoline_code->ready()
StepReady ==
    /\ At("ready")
    /\ flushed' = TRUE
    /\ Advance
    /\ UNCHANGED << mem, m_original_code, m_trampoline_code, m_flags,
                    m_call_abs, regions, n_alloc >>
    /\ UNCHANGED step_frame
    /\ UNCHANGED rest_vars

\* if not a call site: write_memory(m_hookee, kJumpOpcode)
StepOpcode ==
    /\ At("opcode")
    /\ mem' = IF "kCallInstruction" \notin m_flags
              THEN StoreBytes(mem, 0, << kJumpOpcode >>)
              ELSE mem
    /\ Advance
    /\ UNCHANGED << m_original_code, m_trampoline_code, m_flags, m_call_abs,
                    regions, n_alloc, flushed >>
    /\ UNCHANGED step_frame
    /\ UNCHANGED rest_vars

\* write_memory(m_hookee.front(1), get_relative_address(begin(), m_hookee))
StepOperand ==
    /\ At("operand")
    /\ mem' = StoreBytes(mem, 1,
                  LE32(get_relative_address(begin(m_trampoline_code[1]),
                                            m_hookee, 5)))
    /\ Advance
    /\ UNCHANGED << m_original_code, m_trampoline_code, m_flags, m_call_abs,
                    regions, n_alloc, flushed >>
    /\ UNCHANGED step_frame
    /\ UNCHANGED rest_vars

\* if (m_size > kJumpSize) fill_memory(m_hookee.front(kJumpSize), ...)
StepNops ==
    /\ At("nops")
    /\ mem' = IF m_size > kJumpSize
              THEN FillBytes(mem, kJumpSize, kNopOpcode, m_size - kJumpSize)
              ELSE mem
    /\ Advance
    /\ UNCHANGED << m_original_code, m_trampoline_code, m_flags, m_call_abs,
                    regions, n_alloc, flushed >>
    /\ UNCHANGED step_frame
    /\ UNCHANGED rest_vars

\* m_flags |= kInstalled
StepMark ==
    /\ At("mark")
    /\ m_flags' = m_flags \cup {"kInstalled"}
    /\ Advance
    /\ UNCHANGED << mem, m_original_code, m_trampoline_code, m_call_abs,
                    regions, n_alloc, flushed >>
    /\ UNCHANGED step_frame
    /\ UNCHANGED rest_vars

StepNext ==
    \/ StepEnter
    \/ StepDetect
    \/ StepAllocate
    \/ StepSave
    \/ StepStub
    \/ StepRelocate
    \/ StepReady
    \/ StepOpcode
    \/ StepOperand
    \/ StepNops
    \/ StepMark

StepSpec == StepInit /\ [][StepNext]_vars

\* ------------------------------------------------------------------------
\* Reading the state
\* ------------------------------------------------------------------------

Installed == "kInstalled" \in m_flags

\* the record accepts installation: the boundary loop ended without an
\* error (m_size reached kJumpSize) and the hookee was executable
Accepts == m_size >= kJumpSize /\ executable

ArenaBase == m_trampoline_code[1].m_code

ArenaCode == m_trampoline_code[1].code

\* the five bytes of the redirect slot
Slot == Peek(ArenaCode, kSlotOffset, kJumpSize)

\* absolute target of the rel32 in bs[2..5] of a 5-byte instruction at at
Target5(bs, at) == Add32(Add32(at, Word(5)), FromLE32(SubSeq(bs, 2, 5)))

SlotTarget == Target5(Slot, Add32(ArenaBase, Word(kSlotOffset)))

SlotJumpsTo(to) == Slot[1] = kJumpOpcode /\ SlotTarget = to

\* the hookee's first five bytes are a call or jmp rel32 to address to
HookeeTransfersTo(to) ==
    /\ mem[0] \in {kCallOpcode, kJumpOpcode}
    /\ Target5(ReadBytes(mem, 0, 5), m_hookee) = to

\* region bytes outside the redirect slot are the same in c1 and c2
SameOutsideSlot(c1, c2) ==
    /\ Len(c1) = Len(c2)
    /\ \A i \in 1 .. Len(c1) :
           (i <= kSlotOffset \/ i > kSlotOffset + kJumpSize) => c1[i] = c2[i]

\* the context-capture stub: 50 8B 44 24 04 A3 <&ctx.ret:LE32> 58
StubBytes == << 80, 139, 68, 36, 4, 163 >> \o LE32(ContextAddr) \o << 88 >>

\* instruction boundaries of the listing in m: the offsets the decoder
\* reaches from offset off without an error
RECURSIVE Boundaries(_, _)
Boundaries(m, off) ==
    IF off >= kJumpSize THEN {off}
    ELSE LET hs == hde32_disasm(m, off) IN
         IF hs.F_ERROR THEN {off} ELSE {off} \cup Boundaries(m, off + hs.len)

\* ------------------------------------------------------------------------
\* Properties
\* ------------------------------------------------------------------------

\* C1 - Prologue fidelity: after an install() that was accepted on a fresh
\* record, directly followed by remove(), the first m_size bytes at the
\* hookee equal the bytes that were there before that install(), for
\* general and for call-site hookees.
PrologueFidelity ==
    (prev.op = "install" /\ prev.path = "fresh" /\ last.op = "remove")
        => ReadBytes(mem, 0, m_size) = ReadBytes(prev.mem, 0, m_size)

\* a fresh install padded a window longer than the jump, and remove()
\* wrote the saved prologue back
PrologueFidelityWitness ==
    /\ prev.op = "install" /\ prev.path = "fresh"
    /\ last.op = "remove" /\ last.path = "unload"
    /\ m_size > kJumpSize
    /\ mem # last.mem

\* C2 - as claimed: on a record that accepts installation and whose hookee
\* nobody else touched, every install() leaves the hook installed: the flag
\* is set, the hookee transfers to the arena and the slot targets the hooker.
InstallAlwaysInstalls ==
    (last.op = "install" /\ Accepts /\ ~touched)
        => /\ Installed
           /\ m_trampoline_code # NULL
           /\ HookeeTransfersTo(ArenaBase)
           /\ SlotJumpsTo(m_hooker)

\* C3 - as claimed: after install(); remove(); install() the arena exists
\* at the base it had after the first install, nothing was allocated by
\* the cycle, and the stub and the redirect slot to the hooker are in place.
ReinstallKeepsArena ==
    (prev.op = "remove" /\ "kInstalled" \in prev.flags /\ last.op = "install")
        => /\ m_trampoline_code # NULL
           /\ ArenaBase = prev.tramp[1].m_code
           /\ n_alloc = prev.n_alloc
           /\ Peek(ArenaCode, 0, kSlotOffset) = StubBytes
           /\ SlotJumpsTo(m_hooker)

\* C4 - as claimed: once the hook record is destroyed no region allocated
\* by install() is still live, and no region was ever released twice.
NoArenaLeak ==
    /\ ~bad_free
    /\ ~alive => \A b \in ArenaBases : regions[b] # "live"

\* the hookee held, before the last operation, a relative imm32 instruction
\* whose destination is neither the arena base nor m_call_abs
WasChained ==
    /\ "kInstalled" \in last.flags
    /\ LET hs == hde32_disasm(last.mem, 0) IN
           /\ ~hs.F_ERROR /\ hs.F_RELATIVE /\ hs.F_IMM32
           /\ Add32(Add32(m_hookee, Word(hs.len)), hs.imm)
                  \notin {last.tramp[1].m_code, m_call_abs}

\* C5 - Chained remove: remove() on an installed hook whose hookee was
\* re-targeted changes no hookee byte, keeps the arena live at its base,
\* clears kInstalled and rewrites only the redirect slot: five nops for a
\* general hook, jmp m_call_abs for a call site; the slot no longer leads
\* to the hooker.
ChainedRemove ==
    (last.op = "remove" /\ WasChained)
        => /\ mem = last.mem
           /\ m_trampoline_code # NULL
           /\ ArenaBase = last.tramp[1].m_code
           /\ regions[ArenaBase] = "live"
           /\ ~Installed
           /\ SameOutsideSlot(ArenaCode, last.tramp[1].code)
           /\ IF "kCallInstruction" \in last.flags
              THEN SlotJumpsTo(m_call_abs)
              ELSE Slot = [i \in 1 .. kJumpSize |-> kNopOpcode]
           /\ ~SlotJumpsTo(m_hooker)

\* remove() patched the slot of a chained call-site hook
ChainedRemoveWitness ==
    /\ last.op = "remove" /\ WasChained
    /\ "kCallInstruction" \in last.flags
    /\ Slot # Peek(last.tramp[1].code, kSlotOffset, kJumpSize)

\* C6 - Boundary minimality: when the listing at construction reaches 5
\* bytes without an error, m_size is the least instruction boundary >= 5,
\* and the boundary before it is < 5.
BoundaryMinimality ==
    (last.op = "none" /\ \E b \in Boundaries(mem, 0) : b >= kJumpSize)
        => /\ m_size \in Boundaries(mem, 0)
           /\ m_size >= kJumpSize
           /\ \A b \in Boundaries(mem, 0) : b >= kJumpSize => m_size <= b
           /\ \E b \in Boundaries(mem, 0) :
                  b < kJumpSize /\ b + hde32_disasm(mem, b).len = m_size

\* a constructed record whose window is longer than the jump
BoundaryMinimalityWitness ==
    /\ last.op = "none"
    /\ "kListingBroken" \notin m_flags
    /\ m_size > kJumpSize

\* C7 - Hookee patch shape: after install() from the fresh state a general
\* hookee holds E9, LE32(arena - (hookee + 5)), then 0x90 up to m_size; a
\* call site keeps its E8 and has only bytes 1..4 rewritten, to the rel32
\* of the arena base; no byte from m_size on is modified.
HookeePatchShape ==
    (last.op = "install" /\ last.path = "fresh")
        => /\ IF last.mem[0] # kCallOpcode
              THEN /\ mem[0] = kJumpOpcode
                   /\ ReadBytes(mem, 1, 4) =
                          LE32(Sub32(ArenaBase, Add32(m_hookee, Word(5))))
                   /\ \A i \in kJumpSize .. m_size - 1 : mem[i] = kNopOpcode
              ELSE /\ mem[0] = kCallOpcode
                   /\ HookeeTransfersTo(ArenaBase)
                   /\ \A i \in DOMAIN mem : i \notin 1 .. 4 => mem[i] = last.mem[i]
           /\ \A i \in DOMAIN mem : i >= m_size => mem[i] = last.mem[i]

\* a fresh install on a general hookee with a window longer than the jump
HookeePatchShapeWitness ==
    /\ last.op = "install" /\ last.path = "fresh"
    /\ last.mem[0] # kCallOpcode
    /\ m_size > kJumpSize
    /\ mem # last.mem

\* C8 - Redirect slot: whenever kInstalled is set the slot is E9 rel32 with
\* arena + 0x0B + 5 + rel32 = m_hooker, and a re-install changes no arena
\* byte outside the slot.
RedirectSlot ==
    /\ Installed => (m_trampoline_code # NULL /\ SlotJumpsTo(m_hooker))
    /\ (last.op = "install" /\ last.path = "again")
           => SameOutsideSlot(ArenaCode, last.tramp[1].code)

\* a re-install from the removed-with-arena state rewrote the slot
RedirectSlotWitness ==
    /\ last.op = "install" /\ last.path = "again"
    /\ Installed
    /\ Slot # Peek(last.tramp[1].code, kSlotOffset, kJumpSize)

\* C9 - as claimed: after install() of a non-call-site hook the last
\* instruction emitted into the arena is E9 rel32 whose absolute target is
\* m_hookee + m_size, for every prologue.
ContinuationJump ==
    (last.op = "install" /\ last.path = "fresh" /\ last.mem[0] # kCallOpcode)
        => LET end == m_trampoline_code[1].m_offset
               tail == Peek(ArenaCode, end - kJumpSize, kJumpSize)
           IN  /\ end >= kBodyOffset + kJumpSize
               /\ tail[1] = kJumpOpcode
               /\ Target5(tail, Add32(ArenaBase, Word(end - kJumpSize)))
                      = Add32(m_hookee, Word(m_size))

\* an 8-bit displacement as the processor reads it: sign-extended
SignExtend8(b) == IF b >= 128 THEN Sub32(Word(b), Word(256)) ELSE Word(b)

\* where the IP-relative instruction hs, placed at address at, transfers to
OriginalTarget(hs, at) ==
    Add32(Add32(at, Word(hs.len)),
          IF hs.F_IMM8 THEN SignExtend8(hs.imm[2]) ELSE hs.imm)

\* walking the original window in m from offset off and the arena from
\* offset coff: every IP-relative instruction has its rewritten form in
\* the arena, before the continuation jump, with the same absolute target
RECURSIVE TargetsKept(_, _, _)
TargetsKept(m, off, coff) ==
    IF off >= m_size THEN TRUE
    ELSE
        LET hs == hde32_disasm(m, off)
            from == Add32(m_hookee, Word(off))
            at == Add32(ArenaBase, Word(coff))
            room == m_trampoline_code[1].m_offset - kJumpSize
        IN  IF ~hs.F_RELATIVE THEN TargetsKept(m, off + hs.len, coff + hs.len)
            ELSE IF hs.opcode \in {232, 233, 235} THEN
                /\ coff + 5 <= room
                /\ Peek(ArenaCode, coff, 1)[1] = (IF hs.opcode = 232 THEN 232 ELSE 233)
                /\ Target5(Peek(ArenaCode, coff, 5), at) = OriginalTarget(hs, from)
                /\ TargetsKept(m, off + hs.len, coff + 5)
            ELSE
                /\ coff + 6 <= room
                /\ Peek(ArenaCode, coff, 2) =
                       << 15, 128 + ((IF hs.opcode # 15 THEN hs.opcode ELSE hs.opcode2) % 16) >>
                /\ Add32(Add32(at, Word(6)), FromLE32(Peek(ArenaCode, coff + 2, 4)))
                       = OriginalTarget(hs, from)
                /\ TargetsKept(m, off + hs.len, coff + 6)

\* C10 - as claimed: after install() of a non-call-site hook every
\* IP-relative instruction of the original m_size bytes (E8, E9, EB, 7x,
\* 0F 8x; displacements of either sign) has been emitted into the arena
\* with the same absolute target, short jcc widened to 0F 8x with the same
\* condition nibble.
RelocationCorrectness ==
    (last.op = "install" /\ last.path = "fresh" /\ last.mem[0] # kCallOpcode)
        => TargetsKept(last.mem, 0, kBodyOffset)

\* C11 - Call target and call-site capture: after an install() accepted on
\* a fresh record, if the hookee's first instruction was E8 with immediate
\* d the record carries kCallInstruction, m_call_abs = hookee + 5 + d
\* (mod 2^32) and call() dispatches to that address; otherwise the flag is
\* clear and call() dispatches to arena base + 0x10.
CallTarget ==
    (prev.op = "install" /\ prev.path = "fresh" /\ last.op = "call")
        => IF prev.mem[0] = kCallOpcode
           THEN /\ "kCallInstruction" \in m_flags
                /\ m_call_abs = Target5(ReadBytes(prev.mem, 0, 5), m_hookee)
                /\ call_address = Target5(ReadBytes(prev.mem, 0, 5), m_hookee)
           ELSE /\ "kCallInstruction" \notin m_flags
                /\ call_address = Add32(ArenaBase, Word(kBodyOffset))

\* call() was made on a freshly installed call-site hook whose original
\* call went backwards (negative immediate)
CallTargetWitness ==
    /\ prev.op = "install" /\ prev.path = "fresh" /\ last.op = "call"
    /\ prev.mem[0] = kCallOpcode
    /\ prev.mem[4] = 255
    /\ call_address # Add32(ArenaBase, Word(kBodyOffset))

\* C12 - Arena layout constants: whenever the record holds an arena, its
\* bytes [0, 0x0B) are 50 8B 44 24 04 A3 <&m_context.return_address:LE32>
\* 58; a remove() that keeps the arena and a re-install leave them as they
\* were.
StubLayout ==
    /\ m_trampoline_code # NULL => Peek(ArenaCode, 0, kSlotOffset) = StubBytes
    /\ (last.op \in {"install", "remove"} /\ last.tramp # NULL
            /\ m_trampoline_code # NULL)
           => Peek(ArenaCode, 0, kSlotOffset)
                  = Peek(last.tramp[1].code, 0, kSlotOffset)

\* a re-install wrote to an arena that a remove() had kept
StubLayoutWitness ==
    /\ last.op = "install" /\ last.path = "again"
    /\ prev.op = "remove" /\ prev.path = "patch"
    /\ m_trampoline_code # NULL
    /\ ArenaCode # last.tramp[1].code

\* ------------------------------------------------------------------------
\* What the processor does with the code call() dispatches to.  A run is
\* the sequence of events up to the point where control leaves the
\* overwrite window for memory that install() does not write: the
\* instructions executed (by their bytes), the calls made (by target), the
\* conditions tested, and the address control leaves to.
\* ------------------------------------------------------------------------

\* steps a run may take before it is cut off as a loop
RunFuel == MaxWindow + 2

Ev(kind, arg) == [kind |-> kind, arg |-> arg]

\* offset of address pc in the n bytes at base, or -1 when it is not there
OffsetIn(pc, base, n) ==
    LET d == Sub32(pc, base) IN
    IF d[1] = 0 /\ d[2] < n THEN d[2] ELSE -1

\* the bytes of a region as memory; nothing was written after them
ArenaView(code) ==
    [i \in 0 .. Len(code) + 6 |-> IF i < Len(code) THEN code[i + 1] ELSE 0]

\* one instruction, at offset off of m and address at: the events it adds
\* and the address of the next instruction (NULL when there is none)
Step(m, off, at, taken) ==
    LET hs == hde32_disasm(m, off)
        fall == Add32(at, Word(hs.len))
    IN  IF hs.F_ERROR THEN [events |-> << Ev("fault", at) >>, next |-> NULL]
        ELSE IF ~hs.F_RELATIVE THEN
            [events |-> << Ev("op", ReadBytes(m, off, hs.len)) >>, next |-> << fall >>]
        ELSE IF hs.opcode = 232 THEN
            [events |-> << Ev("call", OriginalTarget(hs, at)) >>, next |-> << fall >>]
        ELSE IF hs.opcode \in {233, 235} THEN
            [events |-> << >>, next |-> << OriginalTarget(hs, at) >>]
        ELSE
            [events |-> << Ev("jcc", << (IF hs.opcode # 15 THEN hs.opcode
                                                          ELSE hs.opcode2) % 16 >>) >>,
             next |-> << IF taken THEN OriginalTarget(hs, at) ELSE fall >>]

\* the hookee as it was before install(), entered at pc
RECURSIVE RunOriginal(_, _, _, _)
RunOriginal(m, pc, taken, fuel) ==
    LET off == OffsetIn(pc, m_hookee, m_size) IN
    IF off < 0 THEN << Ev("goto", pc) >>
    ELSE IF fuel = 0 THEN << Ev("loop", pc) >>
    ELSE LET st == Step(m, off, pc, taken) IN
         IF st.next = NULL THEN st.events
         ELSE st.events \o RunOriginal(m, st.next[1], taken, fuel - 1)

\* the installed hook, entered at pc: arena code runs as emitted; control
\* that comes back into the overwritten window is no longer in the
\* original instructions
RECURSIVE RunHooked(_, _, _)
RunHooked(pc, taken, fuel) ==
    LET aoff == OffsetIn(pc, ArenaBase, kPageSize4Kb)
        hoff == OffsetIn(pc, m_hookee, m_size)
    IN  IF hoff >= 0 THEN << Ev("wild", pc) >>
        ELSE IF aoff < 0 THEN << Ev("goto", pc) >>
        ELSE IF fuel = 0 THEN << Ev("loop", pc) >>
        ELSE LET st == Step(ArenaView(ArenaCode), aoff, pc, taken) IN
             IF st.next = NULL THEN st.events
             ELSE st.events \o RunHooked(st.next[1], taken, fuel - 1)

\* C13 - as claimed: call() made through a freshly installed hook does what
\* invoking the hookee did before installation: for a call site it enters
\* the function the site called; otherwise the run from the dispatch
\* address executes the same instructions, makes the same calls, tests the
\* same conditions and leaves to the same address as the run of the
\* original hookee, whichever way the conditions fall.
CallSemantics ==
    (prev.op = "install" /\ prev.path = "fresh" /\ last.op = "call")
        => IF prev.mem[0] = kCallOpcode
           THEN call_address = OriginalTarget(hde32_disasm(prev.mem, 0), m_hookee)
           ELSE \A taken \in BOOLEAN :
                    RunHooked(call_address, taken, RunFuel)
                        = RunOriginal(prev.mem, m_hookee, taken, RunFuel)

\* C14 - Refused installation: on a record that the constructor marked
\* listing-broken (the boundary loop stopped short of 5 bytes) or whose
\* hookee was not executable then, no install(), remove() or destruction
\* changes a hookee byte, allocates an arena or sets kInstalled.
RefusedInstallation ==
    ~Accepts
        => /\ ~Installed
           /\ m_trampoline_code = NULL
           /\ m_original_code = NULL
           /\ n_alloc = 0
           /\ \A b \in ArenaBases : regions[b] = "free"
           /\ last.op # "none" => mem = last.mem

\* a listing-broken record on an executable hookee went through install()
\* and was then destroyed
RefusedInstallationWitness ==
    /\ executable
    /\ m_size < kJumpSize
    /\ prev.op = "install" /\ prev.path = "refused"
    /\ last.op = "destroy"

\* the instruction at the hookee before the last operation is not a
\* relative imm32 instruction
WasCorrupted ==
    /\ "kInstalled" \in last.flags
    /\ LET hs == hde32_disasm(last.mem, 0) IN
           hs.F_ERROR \/ ~hs.F_RELATIVE \/ ~hs.F_IMM32

\* C15 - Corrupted site: remove() on an installed hook whose hookee no
\* longer decodes to a relative imm32 instruction writes the saved m_size
\* bytes back over whatever is there, releases the arena, drops the saved
\* prologue and clears kInstalled; bytes from m_size on are left alone.
CorruptedSite ==
    (last.op = "remove" /\ WasCorrupted)
        => /\ ReadBytes(mem, 0, m_size) = last.orig[1]
           /\ \A i \in DOMAIN mem : i >= m_size => mem[i] = last.mem[i]
           /\ m_trampoline_code = NULL
           /\ regions[last.tramp[1].m_code] = "released"
           /\ m_original_code = NULL
           /\ ~Installed

\* remove() ran on a hookee whose first byte a third party had replaced
\* by one that starts no relative instruction, and rewrote it
CorruptedSiteWitness ==
    /\ last.op = "remove" /\ WasCorrupted
    /\ prev.op = "corrupt"
    /\ ~hde32_disasm(last.mem, 0).F_ERROR
    /\ mem[0] # last.mem[0]

\* the n bytes of patched memory at address at
Target(at, n) == ReadBytes(pmem, at, n)

\* patched memory differs from m at most in the n bytes at address at
SameOutside(m, at, n) ==
    \A i \in DOMAIN pmem : (i < at \/ i >= at + n) => pmem[i] = m[i]

\* C16 - Patch round-trip: after install() on a unit the bytes at its
\* address are its replacement, after restore() they are its backup,
\* whether the backup was captured or supplied and whatever calls came
\* before; so install() followed by restore() leaves the target equal to
\* the backup.  Neither call writes outside the bytes it stores.
PatchRoundTrip ==
    /\ plast.op = "install"
           => /\ Target(unit[1].m_address, Len(unit[1].m_replacement))
                     = unit[1].m_replacement
              /\ SameOutside(plast.pmem, unit[1].m_address,
                             Len(unit[1].m_replacement))
    /\ plast.op = "restore"
           => /\ Target(unit[1].m_address, Len(unit[1].m_original))
                     = unit[1].m_original
              /\ SameOutside(plast.pmem, unit[1].m_address,
                             Len(unit[1].m_original))

\* restore() brought back a captured backup over an installed replacement
PatchRoundTripWitness ==
    /\ plast.op = "restore"
    /\ Target(unit[1].m_address, Len(unit[1].m_original)) = unit[1].m_original
    /\ ReadBytes(plast.pmem, unit[1].m_address, Len(unit[1].m_replacement))
           = unit[1].m_replacement
    /\ unit[1].m_original # unit[1].m_replacement
    /\ unit[1].m_original
           = ReadBytes(PMemInit, unit[1].m_address, Len(unit[1].m_original))

\* C19 - as claimed: every unit that a constructor made has a backup as
\* long as its replacement.
UnitLengthInvariant ==
    unit # NULL => Len(unit[1].m_original) = Len(unit[1].m_replacement)

\* the writes of a group operation: for each unit, in the order added, the
\* address and the bytes stored there
Replacements(units) ==
    [k \in DOMAIN units |->
        [at |-> units[k].m_address, bytes |-> units[k].m_replacement]]

Backups(units) ==
    [k \in DOMAIN units |->
        [at |-> units[k].m_address, bytes |-> units[k].m_original]]

\* the writes of ws that cover the byte at address i
Covering(ws, i) ==
    { k \in DOMAIN ws : ws[k].at <= i /\ i < ws[k].at + Len(ws[k].bytes) }

Highest(S) == CHOOSE k \in S : \A j \in S : j <= k

\* memory m after the writes ws made one after the other: every byte holds
\* what the last write covering it stored, or what it held in m
AfterInOrder(m, ws) ==
    [i \in DOMAIN m |->
        IF Covering(ws, i) = {} THEN m[i]
        ELSE LET k == Highest(Covering(ws, i)) IN ws[k].bytes[i - ws[k].at + 1]]

\* C18 - Patch group ordering and destruction: install() and toggle(true)
\* leave the memory as the replacements written in the order added leave
\* it; remove(), toggle(false) and the destruction of the group leave it
\* as the backups written in the order added leave it.
PatchGroupOrder ==
    /\ plast.op \in {"install", "toggle_true"}
           => pmem = AfterInOrder(plast.pmem, Replacements(plast.arg))
    /\ plast.op \in {"remove", "toggle_false", "destroy"}
           => pmem = AfterInOrder(plast.pmem, Backups(plast.arg))

\* a group of two units was destroyed, the backups of the units differ on
\* a byte both cover, and the destruction changed the memory
PatchGroupOrderWitness ==
    /\ plast.op = "destroy"
    /\ Len(plast.arg) = 2
    /\ pmem # plast.pmem
    /\ \E i \in DOMAIN pmem :
           /\ Covering(Backups(plast.arg), i) = {1, 2}
           /\ LET ws == Backups(plast.arg) IN
                  ws[1].bytes[i - ws[1].at + 1] # ws[2].bytes[i - ws[2].at + 1]

\* what holds of every scoped object: inside its scope the target holds the
\* new value, and a restore() on an object whose backup was already
\* written back stores nothing
ScopedHolds ==
    /\ plast.op = "apply" => Target(plast.arg.at, Len(plast.arg.data)) = plast.arg.data
    /\ (plast.op \in {"restore", "destroy"} /\ plast.arg.obj.kind # "patch"
            /\ ~plast.arg.obj.m_initialized)
           => plast.writes = 0 /\ pmem = plast.pmem

\* C17 - as claimed: for scoped_write / scoped_copy / scoped_fill objects
\* and single-unit patch groups in nested scopes, when an object is
\* destroyed (everything applied after it having been destroyed before)
\* the memory is what it was before the object was applied.
ScopedNesting ==
    /\ ScopedHolds
    /\ plast.op = "destroy" => pmem = plast.arg.seen

\* C17 - amended: the same, for scoped_write / scoped_copy / scoped_fill
\* objects and for single-unit patch groups whose backup holds the bytes
\* that were at the target when the group was installed.
ScopedNestingCaptured ==
    /\ ScopedHolds
    /\ (plast.op = "destroy" /\ plast.arg.faithful) => pmem = plast.arg.seen

\* an object applied over the bytes of an outer object that is still
\* live was destroyed, and the bytes went back to what the outer one wrote
ScopedNestingCapturedWitness ==
    /\ plast.op = "destroy" /\ plast.arg.faithful
    /\ scopes # << >>
    /\ pmem # plast.pmem
    /\ pmem # PMemInit
    /\ \E i \in DOMAIN pmem :
           pmem[i] # plast.pmem[i] /\ pmem[i] # PMemInit[i]

\* ------------------------------------------------------------------------
\* C20  Signature search result: for a loaded module with a valid image, a
\* non-empty mask of length n and a pattern of at least n bytes,
\* search_memory_pattern returns the lowest address p inside the image
\* with p + n not past the end of the image such that every mask
\* character is '?' or the byte at p + i equals pattern[i], and 0 when
\* there is no such p.
\* ------------------------------------------------------------------------

\* offsets in the image at which the whole mask matches
Matches ==
    { p \in 0 .. Len(image) - Len(mask) :
        \A i \in 1 .. Len(mask) :
            mask[i] = kWildcard \/ image[p + i] = pattern[i] }

Lowest(S) == CHOOSE p \in S : \A q \in S : p <= q

Searched ==
    /\ found # NULL
    /\ module_kind = "loaded"
    /\ Len(mask) > 0
    /\ Len(pattern) >= Len(mask)

SearchResult ==
    Searched =>
        found[1] = IF Matches = {} THEN 0 ELSE ImageBase + Lowest(Matches)

\* ------------------------------------------------------------------------
\* C21  Empty mask: search_memory_pattern called with a mask of length 0
\* returns none (0) for every loaded module and every pattern.
\* ------------------------------------------------------------------------

EmptyMask ==
    (found # NULL /\ module_kind = "loaded" /\ Len(mask) = 0) =>
        found[1] = 0

\* ------------------------------------------------------------------------
\* C22  Arena cursor invariant: after any sequence of appends and
\* set_offset calls the offset lies in [0, capacity]; no byte at an index
\* at or past capacity is ever written, an append at offset = capacity
\* changes neither the bytes nor the offset; set_offset(n) with n out of
\* range leaves the offset unchanged.
\* ------------------------------------------------------------------------

IsAppend == alast.op \notin { "none", "set_offset" }

ArenaCursor ==
    arena # NULL =>
        /\ arena[1].m_offset >= 0
        /\ arena[1].m_offset <= arena[1].m_size
        /\ Len(arena[1].code) <= arena[1].m_size
        /\ (IsAppend /\ alast.before.m_offset = alast.before.m_size) =>
               arena[1] = alast.before
        /\ (alast.op = "set_offset" /\ alast.arg > arena[1].m_size) =>
               arena[1].m_offset = alast.before.m_offset

\* an append was made with the cursor at capacity, and a set_offset past
\* capacity was refused
ArenaCursorWitness ==
    /\ arena # NULL
    /\ IsAppend
    /\ alast.before.m_offset = alast.before.m_size
    /\ Len(arena[1].code) = arena[1].m_size

ArenaCursorRefusedWitness ==
    /\ arena # NULL
    /\ alast.op = "set_offset"
    /\ alast.arg > arena[1].m_size
    /\ arena[1].m_offset > 0

\* ------------------------------------------------------------------------
\* C30  All-or-nothing emission: an append of several bytes made when
\* fewer bytes remain before capacity than it needs appends all of its
\* bytes or none of them (offset unchanged); no truncated instruction is
\* left in the arena.
\* ------------------------------------------------------------------------

AllOrNothing ==
    (arena # NULL /\ IsAppend /\ alast.need > 1) =>
        \/ arena[1].m_offset = alast.before.m_offset + alast.need
        \/ arena[1] = alast.before

\* ------------------------------------------------------------------------
\* C23  Protection is restored: after read_memory, write_memory,
\* fill_memory, copy_memory or compare_memory returns, the protection
\* change having succeeded, every page has the protection it had before
\* the call; for compare_memory also when both ranges lie on one page.
\* ------------------------------------------------------------------------

ProtectionRestored ==
    (mlast.op # "none" /\ mlast.ok /\ ~faulted) => protect = mlast.protect

\* ------------------------------------------------------------------------
\* C27  Failed unprotect suppresses the write: when the OS refuses the
\* protection change of write_memory, fill_memory or copy_memory, no
\* store to the target range is made (its bytes are unchanged) and no
\* protection is restored.
\* ------------------------------------------------------------------------

FailedUnprotect ==
    (mlast.op \in { "write_memory", "fill_memory", "copy_memory" }
        /\ ~mlast.ok) =>
        /\ pmem = mlast.pmem
        /\ ~faulted
        /\ protect = mlast.protect

\* ------------------------------------------------------------------------
\* C24  Relocation completeness: after install() of a non-call-site hook
\* the arena holds from offset 0x10, in the original order, one emitted
\* instruction (copy or IP-relative rewrite) for each decoded instruction
\* of the original m_size bytes, followed by the continuation jump, also
\* when a short jump is widened.
\* ------------------------------------------------------------------------

\* the body as claimed: the instructions of the window m[off ..] emitted
\* from arena address at, then E9 rel32 to m_hookee + m_size
RECURSIVE CompleteBody(_, _, _)
CompleteBody(m, off, at) ==
    IF off >= m_size THEN
        << kJumpOpcode >>
            \o LE32(get_relative_address(Add32(m_hookee, Word(m_size)), at, 5))
    ELSE
        LET hs == hde32_disasm(m, off)
            bs == relocate(m, m_hookee, off, hs, at)
        IN  bs \o CompleteBody(m, off + hs.len, Add32(at, Word(Len(bs))))

RelocationComplete ==
    (last.op = "install" /\ last.path = "fresh" /\ last.mem[0] # kCallOpcode)
        => LET body == CompleteBody(last.mem, 0,
                                    Add32(ArenaBase, Word(kBodyOffset)))
           IN  /\ Peek(ArenaCode, kBodyOffset, Len(body)) = body
               /\ m_trampoline_code[1].m_offset = kBodyOffset + Len(body)

\* ------------------------------------------------------------------------
\* C28  Hook record consistency: between public operations the arena is
\* present if and only if the saved prologue is present, kInstalled
\* implies that both are present, and kCallInstruction is set only while
\* an arena is present.
\* ------------------------------------------------------------------------

RecordConsistency ==
    alive =>
        /\ (m_trampoline_code # NULL) <=> (m_original_code # NULL)
        /\ Installed => (m_trampoline_code # NULL /\ m_original_code # NULL)
        /\ "kCallInstruction" \in m_flags => m_trampoline_code # NULL

\* a call-site record was installed and removed again, arena released
RecordConsistencyWitness ==
    /\ alive
    /\ last.op = "remove" /\ last.path = "unload"
    /\ "kCallInstruction" \in last.flags
    /\ m_trampoline_code = NULL

\* ------------------------------------------------------------------------
\* C29  Never-installed group leaves memory alone: remove(), toggle(false)
\* or the destruction of a patch group on which install() and toggle(true)
\* were never called leaves the target bytes of all its units unchanged,
\* also for units whose backup was supplied by the caller.
\* ------------------------------------------------------------------------

NeverInstalledUntouched ==
    (~patch_used /\ plast.op \in { "remove", "toggle_false", "destroy" })
        => pmem = plast.pmem

\* ------------------------------------------------------------------------
\* C25  Install ordering: in every intermediate state of install() in
\* which some hookee byte already differs from the original, the arena
\* holds its complete layout (stub, redirect slot to the hooker and, for
\* a general hook, the relocated prologue with its continuation jump) and
\* has been flushed, and the saved prologue holds the original m_size
\* bytes; kInstalled is set only after the last hookee byte was written.
\* ------------------------------------------------------------------------

\* the hook that is being installed is a call site
EnteredOnCall == last.mem[0] = kCallOpcode

InstallOrdering ==
    /\ (at_stmt > 0 /\ mem # last.mem) =>
           /\ m_trampoline_code # NULL
           /\ flushed
           /\ Peek(ArenaCode, 0, kSlotOffset) = StubBytes
           /\ SlotJumpsTo(m_hooker)
           /\ m_trampoline_code[1] =
                  emit_layout(basic_allocator(ArenaBase, kPageSize4Kb),
                              last.mem, m_hookee, m_hooker, m_size,
                              EnteredOnCall)
           /\ m_original_code = << ReadBytes(last.mem, 0, m_size) >>
    /\ (Installed /\ last.op = "install") =>
           mem = patch_hookee(last.mem, m_hookee, ArenaBase, m_size,
                              EnteredOnCall)

\* install() of a general hook stands between the store of the opcode and
\* the store of the operand
InstallOrderingWitness ==
    /\ At("operand")
    /\ ~EnteredOnCall
    /\ mem # last.mem
    /\ ~Installed

\* ------------------------------------------------------------------------
\* C26  Atomic hookee patch: while install() of a general hook runs, the
\* first 5 bytes at the hookee are at every moment either the 5 original
\* bytes or the complete E9 rel32 jump to the arena.
\* ------------------------------------------------------------------------

AtomicPatch ==
    (at_stmt > 0 /\ ~EnteredOnCall) =>
        \/ ReadBytes(mem, 0, kJumpSize) = ReadBytes(last.mem, 0, kJumpSize)
        \/ /\ m_trampoline_code # NULL
           /\ mem[0] = kJumpOpcode
           /\ HookeeTransfersTo(ArenaBase)

====
